---- MODULE Spec2Model ----
(***************************************************************************)
(* Model of the work-logging dashboard: src/app.py (the Streamlit version) *)
(* and src/memo-gradio/app.py (the Gradio version).                        *)
(*                                                                         *)
(* Text is modelled as a sequence of characters.  A character is an ASCII  *)
(* character or a romanised Hangul syllable (the parser reads no unicode   *)
(* in strings, a syllable is written in capitals, two letters or more):    *)
(* "EOP","MU" is the keyword 업무, "YU","HYEONG" is 유형, "SI","GAN" is    *)
(* 시간, "EOPS","EUM" is 없음, "HAL","IL" is 할일, "AA","II","DI","EO" is  *)
(* 아이디어, "EOP","DE","II","TEU" is 업데이트, "MUN","JE","JEOM" is       *)
(* 문제점, "BEON","HO" is 번호.                                            *)
(* Column names: date 날짜, time 시간, menu 메뉴, type 유형, content 내용, *)
(* image 이미지, alarm 알림시간, done 완료; name 메뉴명, sheetinfo         *)
(* 시트정보, trigger 트리거정보, desc 업무설명, mail 메일발송설정; topic   *)
(* 주제, text 전체내용.                                                    *)
(***************************************************************************)
EXTENDS Integers, Sequences, FiniteSets, TLC

VARIABLES
    app,        \* which version of the program runs: "streamlit" or "gradio"
    hasKey,     \* GEMINI_API_KEY is present in the secrets store
    sheet,      \* the remote spreadsheet: worksheet -> table
    ver,        \* ghost: number of successful writes to each worksheet
    loadCache,  \* st.cache_data(ttl=60) memo of load_sheet, per worksheet
    readCache,  \* conn.read(ttl=300) memo of the raw read, per worksheet
    sess,       \* per session: position in its script run and its locals
    drive,      \* the files created in the Drive folder
    calendar,   \* the events inserted into the calendar
    now,        \* the clock (KST), in ticks since 2026-01-01 00:00
    cl,         \* the classifier call under study: its inputs and its answer
    last        \* ghost: what the most recent step did

vars == <<app, hasKey, sheet, ver, loadCache, readCache, sess, drive, calendar,
          now, cl, last>>

(***************************************************************************)
(* Bounds of the model.                                                    *)
(***************************************************************************)
MaxRows == 2       \* rows a worksheet may hold
MaxWrites == 2     \* successful saves in one behaviour
NumSessions == 2   \* browser sessions of the one server process
MaxEffects == 2    \* files and calendar events created in one behaviour
MaxLines == 2      \* lines of an answer of the generative model
MaxTicks == 500    \* how far the clock runs
TicksPerMinute == 2

Sessions == 1..NumSessions
Worksheets == {"notes", "config", "chats"}

(***************************************************************************)
(* Strings.                                                                *)
(***************************************************************************)
WS == {" ", "\n"}

SetMin(S) == CHOOSE x \in S : \A y \in S : x <= y
SetMax(S) == CHOOSE x \in S : \A y \in S : x >= y

\* a text taken as it is
strip_kept(s) == s

\* str.strip(): what is left after removing leading and trailing whitespace
strip(s) ==
    LET keep == {i \in 1..Len(s) : s[i] \notin WS}
    IN  IF keep = {} THEN <<>> ELSE SubSeq(s, SetMin(keep), SetMax(keep))

\* the float NaN pandas puts in a cell that has no value
NaN == <<"<NaN>">>

\* None of Python
None == <<"<None>">>

\* the four note types of the Streamlit version
T_IDEA == <<"AA", "II", "DI", "EO">>
T_TODO == <<"HAL", "IL">>
T_UPDATE == <<"EOP", "DE", "II", "TEU">>
T_ISSUE == <<"MUN", "JE", "JEOM">>
\* and of the Gradio version, each with its emoji and a blank in front
G_IDEA == <<"(bulb)", " ", "AA", "II", "DI", "EO">>
G_TODO == <<"(check)", " ", "HAL", " ", "IL">>
G_UPDATE == <<"(memo)", " ", "EOP", "DE", "II", "TEU">>
G_ISSUE == <<"(fire)", " ", "MUN", "JE", "JEOM">>

\* today_kst_str() and now_kst().strftime("%H:%M:%S"), abstracted to one stamp
TODAY == <<"D">>
CLOCK == <<"T">>

(***************************************************************************)
(* Tables (pandas DataFrames): a set of columns and a sequence of rows,    *)
(* each row a function from the columns to cell values.                    *)
(***************************************************************************)
NOTES_COLS == {"date", "time", "menu", "type", "content", "image", "alarm", "done"}
CHATS_COLS == {"date", "time", "topic", "text"}
CONFIG_COLS == {"name", "sheetinfo", "trigger", "desc", "mail"}

Frame(cols, rows) == [cols |-> cols, rows |-> rows]
NoFrame == Frame({}, <<>>)

DefaultCols(worksheet) ==
    CASE worksheet = "notes" -> NOTES_COLS
      [] worksheet = "chats" -> CHATS_COLS
      [] worksheet = "config" -> CONFIG_COLS

\* pd.DataFrame(columns=[...]) of load_sheet's empty and failure branches
EmptyFrame(worksheet) == Frame(DefaultCols(worksheet), <<>>)

\* df.fillna("")
FillNa(df) ==
    Frame(df.cols, [i \in 1..Len(df.rows) |->
                       [c \in DOMAIN df.rows[i] |->
                           IF df.rows[i][c] = NaN THEN <<>> ELSE df.rows[i][c]]])

\* df[col] = "" for a column that is not there
WithColumn(df, col) ==
    IF col \in df.cols THEN df
    ELSE Frame(df.cols \cup {col},
               [i \in 1..Len(df.rows) |->
                   [c \in df.cols \cup {col} |->
                       IF c = col THEN <<>> ELSE df.rows[i][c]]])

\* df[col] = df[col].astype(str).str.strip() for every text column
StripAll(df) ==
    Frame(df.cols, [i \in 1..Len(df.rows) |->
                       [c \in DOMAIN df.rows[i] |-> strip(df.rows[i][c])]])

\* pd.concat([df, new_row], ignore_index=True): the union of the columns, a
\* cell without a value is NaN
Concat(df, row) ==
    LET cols == df.cols \cup DOMAIN row
        ext(r) == [c \in cols |-> IF c \in DOMAIN r THEN r[c] ELSE NaN]
    IN  Frame(cols, [i \in 1..Len(df.rows) |-> ext(df.rows[i])] \o <<ext(row)>>)

\* df.drop(idx) on the RangeIndex a load returns: idx is the 1-based position
Drop(df, idx) ==
    Frame(df.cols, [i \in 1..(Len(df.rows) - 1) |->
                       IF i < idx THEN df.rows[i] ELSE df.rows[i + 1]])

\* df.loc[idx, col] = value for a label the index has
SetCell(df, idx, col, value) ==
    Frame(df.cols, [i \in 1..Len(df.rows) |->
                       IF i = idx THEN [df.rows[i] EXCEPT ![col] = value]
                       ELSE df.rows[i]])

\* what the spreadsheet holds once a table is written: NaN is an empty cell
ToSheet(df) ==
    Frame(df.cols, [i \in 1..Len(df.rows) |->
                       [c \in DOMAIN df.rows[i] |->
                           IF df.rows[i][c] = NaN THEN <<>> ELSE df.rows[i][c]]])

Range(f) == {f[x] : x \in DOMAIN f}

Column(df, col) == [i \in 1..Len(df.rows) |-> df.rows[i][col]]

(***************************************************************************)
(* The two memo layers of the Streamlit version.  An entry remembers the   *)
(* table it holds; the ghost field ver is the number of writes the         *)
(* worksheet had seen when the table was read from the spreadsheet, and    *)
(* failed tells that the table is the one load_sheet builds after an       *)
(* exception.                                                              *)
(***************************************************************************)
Entry(df, v, failed) == [valid |-> TRUE, df |-> df, ver |-> v, failed |-> failed]
NoEntry == [valid |-> FALSE, df |-> NoFrame, ver |-> 0, failed |-> FALSE]
NoCache == [w \in Worksheets |-> NoEntry]

\* conn.read(worksheet=worksheet, ttl=300): a read memoized for 300 s is
\* answered from the memo; otherwise the spreadsheet is read (readOk: the call
\* does not raise) and the answer memoized
conn_read(rc, worksheet, readOk) ==
    IF rc[worksheet].valid
    THEN [raised |-> FALSE, df |-> rc[worksheet].df, ver |-> rc[worksheet].ver, rc |-> rc]
    ELSE IF ~readOk
    THEN [raised |-> TRUE, df |-> NoFrame, ver |-> 0, rc |-> rc]
    ELSE [raised |-> FALSE, df |-> sheet[worksheet], ver |-> ver[worksheet],
          rc |-> [rc EXCEPT ![worksheet] =
                     Entry(sheet[worksheet], ver[worksheet], FALSE)]]

\* the body of load_sheet, after the read
load_sheet_body(worksheet, r) ==
    IF r.raised THEN EmptyFrame(worksheet)
    ELSE IF Len(r.df.rows) = 0 THEN EmptyFrame(worksheet)
    ELSE LET filled == FillNa(r.df)
             patched == IF worksheet = "notes"
                        THEN WithColumn(WithColumn(filled, "alarm"), "done")
                        ELSE filled
         IN  StripAll(patched)

\* @st.cache_data(ttl=60) load_sheet(worksheet): a call memoized for 60 s is
\* answered from the memo; otherwise the body runs and what it returns, the
\* table of the except branch included, is memoized
load_sheet(lc, rc, worksheet, readOk) ==
    IF lc[worksheet].valid
    THEN [df |-> lc[worksheet].df, ver |-> lc[worksheet].ver,
          failed |-> lc[worksheet].failed, hit |-> TRUE, lc |-> lc, rc |-> rc]
    ELSE LET r == conn_read(rc, worksheet, readOk)
             df == load_sheet_body(worksheet, r)
         IN  [df |-> df, ver |-> r.ver, failed |-> r.raised, hit |-> FALSE,
              lc |-> [lc EXCEPT ![worksheet] = Entry(df, r.ver, r.raised)],
              rc |-> r.rc]

\* load_sheet of the Gradio version: no memo.  outcome is "ok", "noconn"
\* (connect_sheets returned no spreadsheet) or "error" (an exception)
gr_load_sheet(worksheet_name, outcome) ==
    CASE outcome = "noconn" ->
            [df |-> NoFrame, ver |-> 0, failed |-> TRUE]
      [] outcome = "error" ->
            [df |-> EmptyFrame(worksheet_name), ver |-> 0, failed |-> TRUE]
      [] OTHER ->
            LET raw == IF Len(sheet[worksheet_name].rows) = 0
                       THEN NoFrame ELSE sheet[worksheet_name]
                filled == FillNa(raw)
                patched == IF worksheet_name = "notes"
                           THEN WithColumn(WithColumn(filled, "alarm"), "done")
                           ELSE filled
            IN  [df |-> patched, ver |-> ver[worksheet_name], failed |-> FALSE]

TotalWrites == ver["notes"] + ver["config"] + ver["chats"]

\* a save of config that would also remove the notes of the tasks the new
\* config table no longer names
save_sheet_cascade(df, worksheet, updateOk) ==
    IF updateOk
    THEN /\ sheet' =
               LET named(r) == r["menu"] \in Range(Column(df, "name"))
                   written == [sheet EXCEPT ![worksheet] = ToSheet(df)]
               IN  IF worksheet = "config"
                   THEN [written EXCEPT !["notes"] =
                            Frame(@.cols, SelectSeq(@.rows, named))]
                   ELSE written
         /\ ver' = [ver EXCEPT ![worksheet] = @ + 1]
         /\ loadCache' = NoCache
         /\ UNCHANGED readCache
    ELSE UNCHANGED <<sheet, ver, loadCache, readCache>>
\* a save that would add the last row of df below the rows the worksheet has
\* (a row-level append; conn.update does not work this way)
save_sheet_append(df, worksheet, updateOk) ==
    IF updateOk
    THEN /\ sheet' = [sheet EXCEPT ![worksheet] =
                         IF Len(df.rows) = 0 THEN @
                         ELSE ToSheet(Concat(@, df.rows[Len(df.rows)]))]
         /\ ver' = [ver EXCEPT ![worksheet] = @ + 1]
         /\ loadCache' = NoCache
         /\ UNCHANGED readCache
    ELSE UNCHANGED <<sheet, ver, loadCache, readCache>>
\* save_sheet(df, worksheet): conn.update replaces the whole worksheet by df,
\* then load_sheet.clear() drops every memoized load_sheet result; when the
\* update raises nothing changes and False is returned
save_sheet(df, worksheet, updateOk) ==
    IF updateOk
    THEN /\ sheet' = [sheet EXCEPT ![worksheet] = ToSheet(df)]
         /\ ver' = [ver EXCEPT ![worksheet] = @ + 1]
         /\ loadCache' = NoCache
         /\ UNCHANGED readCache
    ELSE UNCHANGED <<sheet, ver, loadCache, readCache>>

\* save_to_sheet(df, worksheet_name) of the Gradio version: worksheet.clear()
\* and then worksheet.update('A1', header + rows).  outcome is "ok", "fail"
\* (nothing was cleared yet) or "fail_after_clear" (update raised)
save_to_sheet(df, worksheet_name, outcome) ==
    /\ UNCHANGED <<loadCache, readCache>>
    /\ CASE outcome = "ok" ->
              /\ sheet' = [sheet EXCEPT ![worksheet_name] = ToSheet(df)]
              /\ ver' = [ver EXCEPT ![worksheet_name] = @ + 1]
         [] outcome = "fail_after_clear" ->
              /\ sheet' = [sheet EXCEPT ![worksheet_name] = NoFrame]
              /\ ver' = [ver EXCEPT ![worksheet_name] = @ + 1]
         [] OTHER -> UNCHANGED <<sheet, ver>>

(***************************************************************************)
(* Text operations the classifier uses.                                    *)
(***************************************************************************)
\* pat in s
Contains(s, pat) ==
    \E i \in 1..(Len(s) - Len(pat) + 1) : SubSeq(s, i, i + Len(pat) - 1) = pat

Positions(s, ch) == {i \in 1..Len(s) : s[i] = ch}

\* s.split(sep)[1]: the text between the first and the second sep
\* (only used where sep in s)
SplitSecond(s, sep) ==
    LET p == Positions(s, sep)
        first == SetMin(p)
        rest == p \ {first}
    IN  IF rest = {} THEN SubSeq(s, first + 1, Len(s))
        ELSE SubSeq(s, first + 1, SetMin(rest) - 1)

\* s.split(sep, 1)[1]: the text after the first sep
SplitRest(s, sep) == SubSeq(s, SetMin(Positions(s, sep)) + 1, Len(s))

\* s.split('\n')
RECURSIVE SplitLines(_)
SplitLines(s) ==
    LET p == Positions(s, "\n")
    IN  IF p = {} THEN <<s>>
        ELSE <<SubSeq(s, 1, SetMin(p) - 1)>>
             \o SplitLines(SubSeq(s, SetMin(p) + 1, Len(s)))

Digits == {"0", "1", "2", "3", "4", "5", "6", "7", "8", "9"}
DigitVal(c) ==
    CASE c = "0" -> 0 [] c = "1" -> 1 [] c = "2" -> 2 [] c = "3" -> 3
      [] c = "4" -> 4 [] c = "5" -> 5 [] c = "6" -> 6 [] c = "7" -> 7
      [] c = "8" -> 8 [] c = "9" -> 9

\* int(s) of a string of digits
RECURSIVE ToInt(_)
ToInt(s) ==
    IF Len(s) = 0 THEN 0
    ELSE 10 * ToInt(SubSeq(s, 1, Len(s) - 1)) + DigitVal(s[Len(s)])

AllDigits(s) == \A i \in 1..Len(s) : s[i] \in Digits

\* re.findall(r'\d+', s): is there a match, and the first match
HasNumber(s) == \E i \in 1..Len(s) : s[i] \in Digits
FirstNumber(s) ==
    LET start == SetMin({i \in 1..Len(s) : s[i] \in Digits})
        stop == SetMin({j \in start..Len(s) :
                           j = Len(s) \/ s[j + 1] \notin Digits})
    IN  SubSeq(s, start, stop)

\* str.lower() on the ASCII capitals the model's texts use
LowerChar(c) ==
    CASE c = "T" -> "t" [] c = "O" -> "o" [] c = "D" -> "d" [] c = "I" -> "i"
      [] c = "E" -> "e" [] c = "A" -> "a" [] c = "U" -> "u" [] c = "P" -> "p"
      [] c = "S" -> "s" [] c = "X" -> "x" [] c = "N" -> "n" [] OTHER -> c
Lower(s) == [i \in 1..Len(s) |-> LowerChar(s[i])]

\* re.findall(r'\d{4}-\d{2}-\d{2}\s+\d{2}:\d{2}', s): a match starts at i
\* and has k whitespace characters between the date and the time
TimeMatchAt(s, i, k) ==
    /\ k >= 1
    /\ i + 15 + k - 1 <= Len(s)
    /\ AllDigits(SubSeq(s, i, i + 3))
    /\ s[i + 4] = "-"
    /\ AllDigits(SubSeq(s, i + 5, i + 6))
    /\ s[i + 7] = "-"
    /\ AllDigits(SubSeq(s, i + 8, i + 9))
    /\ \A j \in (i + 10)..(i + 9 + k) : s[j] \in WS
    /\ AllDigits(SubSeq(s, i + 10 + k, i + 11 + k))
    /\ s[i + 12 + k] = ":"
    /\ AllDigits(SubSeq(s, i + 13 + k, i + 14 + k))
TimeMatches(s) ==
    {m \in (1..Len(s)) \X (1..Len(s)) : TimeMatchAt(s, m[1], m[2])}
HasTime(s) == TimeMatches(s) # {}
FirstTime(s) ==
    LET i == SetMin({m[1] : m \in TimeMatches(s)})
        k == CHOOSE k \in 1..Len(s) : <<i, k>> \in TimeMatches(s)
    IN  SubSeq(s, i, i + 14 + k)

K_TASK == <<"EOP", "MU">>
K_TYPE == <<"YU", "HYEONG">>
K_TIME == <<"SI", "GAN">>
K_NONE == <<"EOPS", "EUM">>

(***************************************************************************)
(* ai_classify_note.  The answer of the generative model is an input: a    *)
(* text, or the call raises.                                               *)
(***************************************************************************)
\* a task line that is read only while no task has been selected yet
ParseTaskLine_first(line, menu_list, menu) ==
    LET num_str == strip(SplitSecond(line, ":"))
        menu_idx == ToInt(FirstNumber(num_str)) - 1
    IN  IF /\ menu = None
           /\ HasNumber(num_str) /\ 0 <= menu_idx /\ menu_idx < Len(menu_list)
        THEN menu_list[menu_idx + 1]
        ELSE menu
\* a task line without the lower bound on the index (Python would count a
\* negative index from the end of the list)
ParseTaskLine_unchecked(line, menu_list, menu) ==
    LET num_str == strip(SplitSecond(line, ":"))
    IN  IF /\ HasNumber(num_str)
           /\ ToInt(FirstNumber(num_str)) - 1 < Len(menu_list)
           /\ Len(menu_list) > 0
        THEN IF ToInt(FirstNumber(num_str)) = 0
             THEN menu_list[Len(menu_list)]
             ELSE menu_list[ToInt(FirstNumber(num_str))]
        ELSE menu
\* the task line: the number after the colon selects the task
ParseTaskLine(line, menu_list, menu) ==
    LET num_str == strip(SplitSecond(line, ":"))
        menu_idx == ToInt(FirstNumber(num_str)) - 1
    IN  IF HasNumber(num_str) /\ 0 <= menu_idx /\ menu_idx < Len(menu_list)
        THEN menu_list[menu_idx + 1]
        ELSE menu

\* a type line read without the keyword chain: whatever follows the colon
ParseTypeLine_raw(line, note_type) == Lower(strip(SplitSecond(line, ":")))
\* the type line of the Streamlit version
ParseTypeLine(line, note_type) ==
    LET type_str == Lower(strip(SplitSecond(line, ":")))
    IN  CASE Contains(type_str, T_IDEA) \/ Contains(type_str, <<"i", "d", "e", "a">>)
               -> T_IDEA
          [] (Contains(type_str, <<"HAL">>) /\ Contains(type_str, <<"IL">>))
                \/ Contains(type_str, <<"t", "o", "d", "o">>)
               -> T_TODO
          [] Contains(type_str, T_UPDATE)
                \/ Contains(type_str, <<"u", "p", "d", "a", "t", "e">>)
               -> T_UPDATE
          [] Contains(type_str, <<"MUN", "JE">>)
                \/ Contains(type_str, <<"i", "s", "s", "u", "e">>)
               -> T_ISSUE
          [] OTHER -> note_type

\* the type line of the Gradio version
gr_ParseTypeLine(line, note_type) ==
    LET type_str == Lower(strip(SplitSecond(line, ":")))
    IN  CASE Contains(type_str, T_IDEA) -> G_IDEA
          [] Contains(type_str, <<"HAL">>) /\ Contains(type_str, <<"IL">>) -> G_TODO
          [] Contains(type_str, T_UPDATE) -> G_UPDATE
          [] Contains(type_str, <<"MUN", "JE">>) -> G_ISSUE
          [] OTHER -> note_type

\* a time line taken as it stands: whatever follows the first colon
ParseTimeLine_raw(line, alarm_time) == strip(SplitRest(line, ":"))
\* the time line
ParseTimeLine(line, alarm_time) ==
    LET time_str == strip(SplitRest(line, ":"))
    IN  IF ~Contains(time_str, K_NONE) /\ Len(time_str) > 5 /\ HasTime(time_str)
        THEN FirstTime(time_str)
        ELSE alarm_time

\* one pass of the loop over the lines: the if / elif / elif chain
ParseLine(version, raw_line, menu_list, acc) ==
    LET line == strip(raw_line)
    IN  IF Contains(line, K_TASK) /\ ":" \in Range(line)
        THEN [acc EXCEPT !.menu = ParseTaskLine(line, menu_list, acc.menu)]
        ELSE IF Contains(line, K_TYPE) /\ ":" \in Range(line)
        THEN [acc EXCEPT !.type = IF version = "gradio"
                                  THEN gr_ParseTypeLine(line, acc.type)
                                  ELSE ParseTypeLine(line, acc.type)]
        ELSE IF Contains(line, K_TIME) /\ ":" \in Range(line)
        THEN [acc EXCEPT !.alarm = ParseTimeLine(line, acc.alarm)]
        ELSE acc

RECURSIVE ParseLines(_, _, _, _)
ParseLines(version, lines, menu_list, acc) ==
    IF Len(lines) = 0 THEN acc
    ELSE ParseLines(version, Tail(lines), menu_list,
                    ParseLine(version, Head(lines), menu_list, acc))

Classified(menu, type, alarm) == [menu |-> menu, type |-> type, alarm |-> alarm]

\* "not x" of Python for a text or None
Falsy(x) == x = None \/ x = <<>>

\* a parse that returns what the loop found, without the fallbacks
ParseResponse_found(text, menu_list) ==
    ParseLines("streamlit", SplitLines(strip(text)), menu_list,
               Classified(None, None, None))
\* the parse of the answer and the fallbacks after the loop
ParseResponse(text, menu_list) ==
    LET r == ParseLines("streamlit", SplitLines(strip(text)), menu_list,
                        Classified(None, None, None))
        menu == IF Falsy(r.menu) /\ Len(menu_list) > 0 THEN menu_list[1] ELSE r.menu
        note_type == IF Falsy(r.type) THEN T_UPDATE ELSE r.type
    IN  Classified(menu, note_type, r.alarm)

\* an except branch that would answer nothing at all
ClassifyFailed_none(menu_list) == Classified(None, None, None)
\* the except branch
ClassifyFailed(menu_list) ==
    IF Len(menu_list) > 0 THEN Classified(menu_list[1], T_UPDATE, None)
    ELSE Classified(None, None, None)

\* ai_classify_note(content, menu_list, config_df) of the Streamlit version.
\* reply is [raises |-> BOOLEAN, text |-> the answer]; calls is the number of
\* generate_content calls made
ai_classify_note(key, reply, menu_list) ==
    IF ~key THEN [res |-> Classified(None, None, None), calls |-> 0]
    ELSE IF reply.raises THEN [res |-> ClassifyFailed(menu_list), calls |-> 1]
    ELSE [res |-> ParseResponse(reply.text, menu_list), calls |-> 1]

\* the except branch of the Gradio version
gr_ClassifyFailed(menu_list) ==
    Classified(IF Len(menu_list) > 0 THEN menu_list[1] ELSE None, G_UPDATE, None)

\* the parse of the Gradio version: "menu = menu_list[0]" raises on an empty
\* list and the except branch answers
gr_ParseResponse(text, menu_list) ==
    LET r == ParseLines("gradio", SplitLines(strip(text)), menu_list,
                        Classified(None, None, None))
    IN  IF Falsy(r.menu) /\ Len(menu_list) = 0 THEN gr_ClassifyFailed(menu_list)
        ELSE Classified(IF Falsy(r.menu) THEN menu_list[1] ELSE r.menu,
                        IF Falsy(r.type) THEN G_UPDATE ELSE r.type,
                        r.alarm)

\* ai_classify_note of the Gradio version: without a key it answers the first
\* task and the update type (and the except branch answers when there is none)
gr_ai_classify_note(key, reply, menu_list) ==
    IF ~key
    THEN [res |-> IF Len(menu_list) > 0
                  THEN Classified(menu_list[1], G_UPDATE, None)
                  ELSE gr_ClassifyFailed(menu_list),
          calls |-> 0]
    ELSE IF reply.raises THEN [res |-> gr_ClassifyFailed(menu_list), calls |-> 1]
    ELSE [res |-> gr_ParseResponse(reply.text, menu_list), calls |-> 1]

(***************************************************************************)
(* Dates and times.  The texts of the model have the zero-padded form      *)
(* YYYY-MM-DD HH:MM that the program itself writes.                        *)
(***************************************************************************)
IsLeap(y) == (y % 4 = 0 /\ y % 100 # 0) \/ y % 400 = 0
DaysInMonth(y, m) ==
    CASE m \in {1, 3, 5, 7, 8, 10, 12} -> 31
      [] m \in {4, 6, 9, 11} -> 30
      [] OTHER -> IF IsLeap(y) THEN 29 ELSE 28
RECURSIVE DaysBeforeMonth(_, _)
DaysBeforeMonth(y, m) ==
    IF m <= 1 THEN 0 ELSE DaysBeforeMonth(y, m - 1) + DaysInMonth(y, m - 1)
DaysBeforeYear(y) ==
    365 * (y - 1) + ((y - 1) \div 4) - ((y - 1) \div 100) + ((y - 1) \div 400)
Ordinal(y, m, d) == DaysBeforeYear(y) + DaysBeforeMonth(y, m) + d
EpochOrdinal == Ordinal(2026, 1, 1)

TimeFields(s) ==
    [y |-> ToInt(SubSeq(s, 1, 4)), m |-> ToInt(SubSeq(s, 6, 7)),
     d |-> ToInt(SubSeq(s, 9, 10)), H |-> ToInt(SubSeq(s, 12, 13)),
     M |-> ToInt(SubSeq(s, 15, 16))]

\* datetime.strptime(s, "%Y-%m-%d %H:%M") does not raise
StrptimeOk(s) ==
    /\ Len(s) = 16
    /\ TimeMatchAt(s, 1, 1)
    /\ LET f == TimeFields(s)
       IN  /\ f.y >= 1
           /\ f.m \in 1..12
           /\ f.d \in 1..DaysInMonth(f.y, f.m)
           /\ f.H \in 0..23
           /\ f.M \in 0..59

\* the parsed time, localized to KST, in minutes since 2026-01-01 00:00 KST
StrptimeMinutes(s) ==
    LET f == TimeFields(s)
    IN  (Ordinal(f.y, f.m, f.d) - EpochOrdinal) * 1440 + f.H * 60 + f.M

(***************************************************************************)
(* Drive and calendar.                                                     *)
(***************************************************************************)
\* the URL upload_to_drive returns for the file with the given id: the id
\* files().create gave the file (its place in the drive) closes the URL
FileUrl(id) == <<"u", "r", "l", "=">> \o <<CHOOSE c \in Digits : DigitVal(c) = id>>

\* an upload that answers the URL of the file although the permission was
\* not created
upload_to_drive_unshared(files, filename, outcome) ==
    CASE outcome \in {"ok", "perm_fails"} ->
            [url |-> FileUrl(Len(files) + 1),
             drive |-> Append(files, [name |-> filename,
                                      public |-> outcome = "ok"])]
      [] OTHER -> [url |-> None, drive |-> files]
\* upload_to_drive(image_file, filename): outcome is "ok", "create_fails"
\* (the credentials, the build or files().create raised) or "perm_fails"
\* (files().create worked, permissions().create raised)
upload_to_drive(files, filename, outcome) ==
    CASE outcome = "ok" ->
            [url |-> FileUrl(Len(files) + 1),
             drive |-> Append(files, [name |-> filename, public |-> TRUE])]
      [] outcome = "perm_fails" ->
            [url |-> None,
             drive |-> Append(files, [name |-> filename, public |-> FALSE])]
      [] OTHER -> [url |-> None, drive |-> files]

CALENDAR_ID == "wldydxo09@gmail.com"
EventLink == <<"l", "i", "n", "k">>

\* an event made for whatever start text it is given: a text that is no date
\* counts as the epoch
create_calendar_event_unparsed(events, description, start_datetime_str, menu, insertOk) ==
    IF insertOk
    THEN [link |-> EventLink,
          calendar |-> Append(events,
              [calendarId |-> CALENDAR_ID,
               description |-> description,
               menu |-> menu,
               start |-> IF StrptimeOk(start_datetime_str)
                         THEN StrptimeMinutes(start_datetime_str) ELSE 0,
               end |-> IF StrptimeOk(start_datetime_str)
                       THEN StrptimeMinutes(start_datetime_str) + 60 ELSE 60,
               reminders |-> <<30, 10>>])]
    ELSE [link |-> None, calendar |-> events]
\* create_calendar_event(title, description, start_datetime_str, menu)
create_calendar_event(events, description, start_datetime_str, menu, insertOk) ==
    IF StrptimeOk(start_datetime_str) /\ insertOk
    THEN [link |-> EventLink,
          calendar |-> Append(events,
              [calendarId |-> CALENDAR_ID,
               description |-> description,
               menu |-> menu,
               start |-> StrptimeMinutes(start_datetime_str),
               end |-> StrptimeMinutes(start_datetime_str) + 60,
               reminders |-> <<30, 10>>])]
    ELSE [link |-> None, calendar |-> events]

(***************************************************************************)
(* check_pending_tasks.                                                    *)
(***************************************************************************)
RECURSIVE SortedSeq(_)
SortedSeq(S) ==
    IF S = {} THEN <<>> ELSE <<SetMin(S)>> \o SortedSeq(S \ {SetMin(S)})

\* the values of the done column that mean "completed"
DONE_MARKS == {<<"o">>, <<"WAN", "RYO">>, <<"d", "o", "n", "e">>, <<"x">>}
IsDone(cell) == Lower(strip(cell)) \in DONE_MARKS

\* a window without its two end points
InWindow_exclusive(alarm_minutes, t) ==
    /\ (alarm_minutes - 30) * TicksPerMinute < t
    /\ t < (alarm_minutes + 120) * TicksPerMinute
\* alarm_dt - timedelta(minutes=30) <= now <= alarm_dt + timedelta(hours=2)
InWindow(alarm_minutes, t) ==
    /\ (alarm_minutes - 30) * TicksPerMinute <= t
    /\ t <= (alarm_minutes + 120) * TicksPerMinute

\* int(time_diff.total_seconds() / 60): the quotient truncated towards zero
MinutesLeft(alarm_minutes, t) ==
    LET diff == alarm_minutes * TicksPerMinute - t
    IN  IF diff >= 0 THEN diff \div TicksPerMinute
        ELSE 0 - ((0 - diff) \div TicksPerMinute)

AlarmStatus(minutes) ==
    IF minutes < 0 THEN [kind |-> "past", minutes |-> 0 - minutes]
    ELSE IF minutes = 0 THEN [kind |-> "now", minutes |-> 0]
    ELSE [kind |-> "ahead", minutes |-> minutes]

\* does the loop over the to-dos append row i of the table?
IsPending(notes_df, i, t) ==
    LET row == notes_df.rows[i]
        alarm == strip(row["alarm"])
    IN  /\ row["type"] = T_TODO
        /\ ~IsDone(row["done"])
        /\ alarm # <<>>
        /\ alarm # <<"n", "a", "n">>
        /\ StrptimeOk(alarm)
        /\ InWindow(StrptimeMinutes(alarm), t)

\* check_pending_tasks(), given the table load_sheet("notes") returned
check_pending_tasks(notes_df, t) ==
    LET idxs == SortedSeq({i \in 1..Len(notes_df.rows) : IsPending(notes_df, i, t)})
    IN  [k \in 1..Len(idxs) |->
            LET row == notes_df.rows[idxs[k]]
            IN  [menu |-> row["menu"], content |-> row["content"],
                 alarm |-> strip(row["alarm"]),
                 status |-> AlarmStatus(
                     MinutesLeft(StrptimeMinutes(strip(row["alarm"])), t)),
                 idx |-> idxs[k]]]

(***************************************************************************)
(* Sessions.  A script run (Streamlit) or a handler call (Gradio) that     *)
(* writes a worksheet has two steps: it loads and builds the table to      *)
(* save, and it saves; steps of other sessions may come in between.        *)
(* A session's locals: op (which handler runs), ws (the worksheet), base   *)
(* (what load_sheet returned: the table df, with the ghost fields ver and  *)
(* failed of the memo entries), df (the table to save), idx (the row of    *)
(* the button), row (the row a form adds).                                 *)
(***************************************************************************)
Loaded(r) == [df |-> r.df, ver |-> r.ver, failed |-> r.failed]
Idle == [pc |-> "idle", op |-> "none", ws |-> "notes",
         base |-> [df |-> NoFrame, ver |-> 0, failed |-> FALSE],
         df |-> NoFrame, idx |-> 0, row |-> <<>>]
ToSave(op, ws, base, df, idx, row) ==
    [pc |-> "save", op |-> op, ws |-> ws, base |-> base, df |-> df, idx |-> idx,
     row |-> row]

Event(act, op, ok) == [act |-> act, op |-> op, ok |-> ok]

\* any rerun that only shows a worksheet: load_sheet(worksheet)
Rendered(w, r) ==
    /\ loadCache' = r.lc
    /\ readCache' = r.rc
    /\ last' = Event("load", w, ~r.failed)
Render(w, readOk) ==
    /\ app = "streamlit"
    /\ Rendered(w, load_sheet(loadCache, readCache, w, readOk))
    /\ UNCHANGED <<app, hasKey, sheet, ver, sess, drive, calendar, now, cl>>

\* 60 s after a load_sheet result was memoized it is dropped
LoadTtlExpire(w) ==
    /\ loadCache[w].valid
    /\ loadCache' = [loadCache EXCEPT ![w] = NoEntry]
    /\ last' = Event("expire", "load", TRUE)
    /\ UNCHANGED <<app, hasKey, sheet, ver, readCache, sess, drive, calendar, now, cl>>

\* 300 s after a read was memoized it is dropped
ReadTtlExpire(w) ==
    /\ readCache[w].valid
    /\ readCache' = [readCache EXCEPT ![w] = NoEntry]
    /\ last' = Event("expire", "read", TRUE)
    /\ UNCHANGED <<app, hasKey, sheet, ver, loadCache, sess, drive, calendar, now, cl>>

\* a rerun that has loaded worksheet w (r) and goes on to save the table df
LoadThenSave(s, op, w, r, df, idx, row) ==
    /\ loadCache' = r.lc
    /\ readCache' = r.rc
    /\ sess' = [sess EXCEPT ![s] = ToSave(op, w, Loaded(r), df, idx, row)]
    /\ last' = Event("run", op, ~r.failed)
    /\ UNCHANGED <<app, hasKey, sheet, ver, drive, calendar, now, cl>>

\* the history view is drawn when both tables have rows; n and c are the
\* loads of notes and of config
HistoryShown(n, c) == Len(n.df.rows) > 0 /\ Len(c.df.rows) > 0

CompleteLoaded(s, idx, n, c) ==
    /\ HistoryShown(n, c)
    /\ idx \in 1..Len(n.df.rows)
    /\ n.df.rows[idx]["type"] = T_TODO
    /\ ~IsDone(n.df.rows[idx]["done"])
    /\ LoadThenSave(s, "complete", "notes", [n EXCEPT !.lc = c.lc, !.rc = c.rc],
                    SetCell(n.df, idx, "done", <<"O">>), idx, <<>>)

DeleteLoaded(s, idx, n, c) ==
    /\ HistoryShown(n, c)
    /\ idx \in 1..Len(n.df.rows)
    /\ LoadThenSave(s, "delete", "notes", [n EXCEPT !.lc = c.lc, !.rc = c.rc],
                    Drop(n.df, idx), idx, <<>>)

\* the config load that follows the notes load n of a history run
HistoryConfig(n, okConfig) == load_sheet(n.lc, n.rc, "config", okConfig)

\* history view: the complete button of row idx
HistoryCompleteRun(s, idx, n, okConfig) ==
    CompleteLoaded(s, idx, n, HistoryConfig(n, okConfig))
HistoryComplete(s, idx, okNotes, okConfig) ==
    /\ app = "streamlit"
    /\ sess[s].pc = "idle"
    /\ HistoryCompleteRun(s, idx, load_sheet(loadCache, readCache, "notes", okNotes),
                          okConfig)

\* history view: the delete button of row idx
HistoryDeleteRun(s, idx, n, okConfig) ==
    DeleteLoaded(s, idx, n, HistoryConfig(n, okConfig))
HistoryDelete(s, idx, okNotes, okConfig) ==
    /\ app = "streamlit"
    /\ sess[s].pc = "idle"
    /\ HistoryDeleteRun(s, idx, load_sheet(loadCache, readCache, "notes", okNotes),
                        okConfig)

ChatRow(topic, text) ==
    [c \in CHATS_COLS |->
        CASE c = "date" -> TODAY [] c = "time" -> CLOCK
          [] c = "topic" -> topic [] c = "text" -> text]

\* chat_form_manual: a pasted conversation is appended
ChatSubmit(s, topic, text, readOk) ==
    /\ app = "streamlit"
    /\ sess[s].pc = "idle"
    /\ strip(topic) # <<>> /\ strip(text) # <<>>
    /\ LET r == load_sheet(loadCache, readCache, "chats", readOk)
       IN  /\ Len(r.df.rows) < MaxRows
           /\ LoadThenSave(s, "append", "chats", r,
                           Concat(r.df, ChatRow(topic, text)), 0,
                           ChatRow(topic, text))

\* the delete button of stored conversation idx
ChatDelete(s, idx, readOk) ==
    /\ app = "streamlit"
    /\ sess[s].pc = "idle"
    /\ LET r == load_sheet(loadCache, readCache, "chats", readOk)
       IN  /\ idx \in 1..Len(r.df.rows)
           /\ LoadThenSave(s, "delete", "chats", r, Drop(r.df, idx), idx, <<>>)

ConfigRow(name, desc) ==
    [c \in CONFIG_COLS |->
        CASE c = "name" -> name [] c = "desc" -> desc [] OTHER -> <<>>]

\* settings: the delete button of task idx
MenuDelete(s, idx, readOk) ==
    /\ app = "streamlit"
    /\ sess[s].pc = "idle"
    /\ LET r == load_sheet(loadCache, readCache, "config", readOk)
       IN  /\ idx \in 1..Len(r.df.rows)
           /\ LoadThenSave(s, "delete", "config", r, Drop(r.df, idx), idx, <<>>)

\* settings: add_menu_form, shown when the config table has rows
AddMenu(s, new_menu, new_desc, readOk) ==
    /\ app = "streamlit"
    /\ sess[s].pc = "idle"
    /\ strip(new_menu) # <<>>
    /\ LET r == load_sheet(loadCache, readCache, "config", readOk)
       IN  /\ Len(r.df.rows) > 0
           /\ Len(r.df.rows) < MaxRows
           /\ LoadThenSave(s, "append", "config", r,
                           Concat(r.df, ConfigRow(new_menu, new_desc)), 0,
                           ConfigRow(new_menu, new_desc))

\* settings: first_menu_form, shown when the config table has no rows; the
\* table saved is the new row alone
FirstMenu(s, first_menu, first_desc, readOk) ==
    /\ app = "streamlit"
    /\ sess[s].pc = "idle"
    /\ strip(first_menu) # <<>>
    /\ LET r == load_sheet(loadCache, readCache, "config", readOk)
       IN  /\ Len(r.df.rows) = 0
           /\ LoadThenSave(s, "first", "config", r,
                           Frame(CONFIG_COLS, <<ConfigRow(first_menu, first_desc)>>),
                           0, ConfigRow(first_menu, first_desc))

\* ghost: the save session s makes.  row is the row its form adds, basever
\* the number of writes its worksheet had seen when the session loaded it,
\* prev the successful save made by the step just before this one, if any
NoSave == [s |-> 0, op |-> "none", row |-> <<>>, basever |-> 0]
SaveEvent(s, ok) ==
    [act |-> "save", op |-> sess[s].op, ok |-> ok, s |-> s, ws |-> sess[s].ws,
     row |-> sess[s].row, basever |-> sess[s].base.ver,
     prev |-> IF last.act = "save" /\ last.ok /\ last.ws = sess[s].ws
              THEN [s |-> last.s, op |-> last.op, row |-> last.row,
                    basever |-> last.basever]
              ELSE NoSave]

\* a save that is followed, in the same run, by the upload of an image
Save_then_upload(s, updateOk) ==
    /\ app = "streamlit"
    /\ sess[s].pc = "save"
    /\ updateOk => TotalWrites < MaxWrites
    /\ Len(drive) < MaxEffects
    /\ save_sheet(sess[s].df, sess[s].ws, updateOk)
    /\ sess' = [sess EXCEPT ![s] = Idle]
    /\ last' = SaveEvent(s, updateOk)
    /\ drive' = upload_to_drive(drive, <<"p">>, "ok").drive
    /\ UNCHANGED <<app, hasKey, calendar, now, cl>>
\* the second step of a Streamlit run: save_sheet, then st.rerun()
Save(s, updateOk) ==
    /\ app = "streamlit"
    /\ sess[s].pc = "save"
    /\ updateOk => TotalWrites < MaxWrites
    /\ save_sheet(sess[s].df, sess[s].ws, updateOk)
    /\ sess' = [sess EXCEPT ![s] = Idle]
    /\ last' = SaveEvent(s, updateOk)
    /\ UNCHANGED <<app, hasKey, drive, calendar, now, cl>>

(***************************************************************************)
(* The record form of the Streamlit version (mode "업무 기록하기").         *)
(* A submit is the record of what the user entered and of how the outside  *)
(* world answers during the run:                                           *)
(*   mode "ai" or "manual"; content; menu_idx, checks (the four type       *)
(*   checkboxes) and alarm (None, or the text of the date and time inputs) *)
(*   of the manual form; images (the names in uploaded_images); reply of   *)
(*   the generative model; okConfig, okNotes (the reads do not raise);     *)
(*   upload (the outcome of upload_to_drive); insertOk (events().insert    *)
(*   does not raise).                                                      *)
(***************************************************************************)
\* the type the manual form's checkboxes select
ManualType(checks) ==
    IF checks.idea THEN T_IDEA
    ELSE IF checks.todo THEN T_TODO
    ELSE IF checks.issue THEN T_ISSUE
    ELSE T_UPDATE

NoteRow(menu, note_type, content, image_url, alarm_time) ==
    [c \in NOTES_COLS |->
        CASE c = "date" -> TODAY
          [] c = "time" -> CLOCK
          [] c = "menu" -> menu
          [] c = "type" -> note_type
          [] c = "content" -> content
          [] c = "image" -> IF Falsy(image_url) THEN <<>> ELSE image_url
          [] c = "alarm" -> IF Falsy(alarm_time) THEN <<>> ELSE alarm_time
          [] c = "done" -> <<>>]

\* a run that asks for a calendar event whenever there is a reminder
SubmitOutcome_any_type(in, cfg, c, up, notes) ==
    LET ai == in.mode = "ai"
        menu_list == Column(cfg.df, "name")
        cal == IF ~Falsy(c.res.alarm)
               THEN create_calendar_event(calendar, in.content, c.res.alarm,
                                          c.res.menu, in.insertOk)
               ELSE [link |-> None, calendar |-> calendar]
        row == NoteRow(c.res.menu, c.res.type, in.content, up.url, c.res.alarm)
        stopped(why, calls) ==
            [stop |-> why, lc |-> cfg.lc, rc |-> cfg.rc, drive |-> drive,
             calendar |-> calendar, calls |-> calls, df |-> NoFrame,
             row |-> <<>>, notes |-> cfg]
    IN  IF Len(cfg.df.rows) = 0 THEN stopped("no_config", 0)
        ELSE IF ~ai /\ in.menu_idx \notin 1..Len(menu_list)
        THEN stopped("no_such_menu", 0)
        ELSE IF strip(in.content) = <<>> THEN stopped("blank", 0)
        ELSE IF ai /\ ~hasKey THEN stopped("no_key", 0)
        ELSE IF ai /\ (Falsy(c.res.menu) \/ Falsy(c.res.type))
        THEN stopped("not_classified", c.calls)
        ELSE [stop |-> "none", lc |-> notes.lc, rc |-> notes.rc,
              drive |-> up.drive, calendar |-> cal.calendar, calls |-> c.calls,
              df |-> Concat(notes.df, row), row |-> row, notes |-> notes]

\* the run once the config table (cfg), the classification (c), the upload
\* (up) and the notes table (notes) are there
SubmitOutcome(in, cfg, c, up, notes) ==
    LET ai == in.mode = "ai"
        menu_list == Column(cfg.df, "name")
        cal == IF c.res.type = T_TODO /\ ~Falsy(c.res.alarm)
               THEN create_calendar_event(calendar, in.content, c.res.alarm,
                                          c.res.menu, in.insertOk)
               ELSE [link |-> None, calendar |-> calendar]
        row == NoteRow(c.res.menu, c.res.type, in.content, up.url, c.res.alarm)
        stopped(why, calls) ==
            [stop |-> why, lc |-> cfg.lc, rc |-> cfg.rc, drive |-> drive,
             calendar |-> calendar, calls |-> calls, df |-> NoFrame,
             row |-> <<>>, notes |-> cfg]
    IN  IF Len(cfg.df.rows) = 0 THEN stopped("no_config", 0)
        ELSE IF ~ai /\ in.menu_idx \notin 1..Len(menu_list)
        THEN stopped("no_such_menu", 0)
        ELSE IF strip(in.content) = <<>> THEN stopped("blank", 0)
        ELSE IF ai /\ ~hasKey THEN stopped("no_key", 0)
        ELSE IF ai /\ (Falsy(c.res.menu) \/ Falsy(c.res.type))
        THEN stopped("not_classified", c.calls)
        ELSE [stop |-> "none", lc |-> notes.lc, rc |-> notes.rc,
              drive |-> up.drive, calendar |-> cal.calendar, calls |-> c.calls,
              df |-> Concat(notes.df, row), row |-> row, notes |-> notes]

\* the classification a submit works with: the classifier's, or the form's
SubmitClassify(in, menu_list) ==
    IF in.mode = "ai" THEN ai_classify_note(hasKey, in.reply, menu_list)
    ELSE [res |-> Classified(
                     IF in.menu_idx \in 1..Len(menu_list)
                     THEN menu_list[in.menu_idx] ELSE None,
                     ManualType(in.checks),
                     IF ManualType(in.checks) = T_TODO THEN in.alarm ELSE None),
          calls |-> 0]

SubmitLoaded(in, cfg) ==
    SubmitOutcome(in, cfg,
        SubmitClassify(in, Column(cfg.df, "name")),
        IF Len(in.images) > 0
        THEN upload_to_drive(drive, in.images[1], in.upload)
        ELSE [url |-> None, drive |-> drive],
        load_sheet(cfg.lc, cfg.rc, "notes", in.okNotes))

\* what one run of the script does with a submit, up to the save
SubmitPlan(in) ==
    SubmitLoaded(in, load_sheet(loadCache, readCache, "config", in.okConfig))

\* the effects of the run p of session s
SubmitRun(s, in, p) ==
    /\ p.stop = "none" => Len(p.notes.df.rows) < MaxRows
    /\ Len(p.drive) <= MaxEffects /\ Len(p.calendar) <= MaxEffects
    /\ loadCache' = p.lc
    /\ readCache' = p.rc
    /\ drive' = p.drive
    /\ calendar' = p.calendar
    /\ sess' = [sess EXCEPT ![s] =
                   IF p.stop = "none"
                   THEN ToSave("submit", "notes", Loaded(p.notes), p.df, 0, p.row)
                   ELSE Idle]
    /\ last' = [act |-> "submit", op |-> p.stop, ok |-> p.stop = "none",
                mode |-> in.mode, calls |-> p.calls]

\* note_form: the run that handles the save button, up to the save
Submit(s, in) ==
    /\ app = "streamlit"
    /\ sess[s].pc = "idle"
    /\ SubmitRun(s, in, SubmitPlan(in))
    /\ UNCHANGED <<app, hasKey, sheet, ver, now, cl>>

(***************************************************************************)
(* save_note of the Gradio version.  A submit is as above, with menu and   *)
(* note_type in place of menu_idx and checks (the dropdown and the radio   *)
(* of the manual options), hasImage in place of images, and okConfig,      *)
(* okNotes the outcome of each load ("ok", "noconn", "error").             *)
(***************************************************************************)
gr_SubmitOutcome(in, cfg, c, up, notes) ==
    LET row == NoteRow(c.res.menu, c.res.type, in.content, up.url, c.res.alarm)
        stopped(why) ==
            [stop |-> why, drive |-> drive, calls |-> 0, df |-> NoFrame,
             row |-> <<>>, notes |-> cfg]
    IN  IF strip(in.content) = <<>> THEN stopped("blank")
        ELSE IF Len(cfg.df.rows) = 0 THEN stopped("no_config")
        ELSE [stop |-> "none", drive |-> up.drive, calls |-> c.calls,
              df |-> Concat(notes.df, row), row |-> row, notes |-> notes]

gr_SubmitClassify(in, menu_list) ==
    IF in.mode = "ai" THEN gr_ai_classify_note(hasKey, in.reply, menu_list)
    ELSE [res |-> Classified(
                     in.menu, in.note_type,
                     IF in.note_type = G_TODO /\ ~Falsy(in.alarm)
                     THEN in.alarm ELSE None),
          calls |-> 0]

gr_SubmitLoaded(in, cfg) ==
    gr_SubmitOutcome(in, cfg,
        gr_SubmitClassify(in, Column(cfg.df, "name")),
        IF in.hasImage
        THEN upload_to_drive(drive, <<"p", "n", "g">>, in.upload)
        ELSE [url |-> <<>>, drive |-> drive],
        gr_load_sheet("notes", in.okNotes))

gr_SubmitPlan(in) == gr_SubmitLoaded(in, gr_load_sheet("config", in.okConfig))

gr_SubmitRun(s, in, p) ==
    /\ p.stop = "none" => Len(p.notes.df.rows) < MaxRows
    /\ Len(p.drive) <= MaxEffects
    /\ drive' = p.drive
    /\ sess' = [sess EXCEPT ![s] =
                   IF p.stop = "none"
                   THEN ToSave("submit", "notes", Loaded(p.notes), p.df, 0, p.row)
                   ELSE Idle]
    /\ last' = [act |-> "submit", op |-> p.stop, ok |-> p.stop = "none",
                mode |-> in.mode, calls |-> p.calls]

\* save_note, up to save_to_sheet
gr_save_note(s, in) ==
    /\ app = "gradio"
    /\ sess[s].pc = "idle"
    /\ gr_SubmitRun(s, in, gr_SubmitPlan(in))
    /\ UNCHANGED <<app, hasKey, sheet, ver, loadCache, readCache, calendar, now, cl>>

\* the second step of save_note: save_to_sheet(updated_df, "notes")
gr_Save(s, outcome) ==
    /\ app = "gradio"
    /\ sess[s].pc = "save"
    /\ outcome # "fail" => TotalWrites < MaxWrites
    /\ save_to_sheet(sess[s].df, sess[s].ws, outcome)
    /\ sess' = [sess EXCEPT ![s] = Idle]
    /\ last' = SaveEvent(s, outcome = "ok")
    /\ UNCHANGED <<app, hasKey, drive, calendar, now, cl>>

(***************************************************************************)
(* Specification Spec: the worksheets, the memo layers and the sessions.   *)
(***************************************************************************)
TaskA == <<"A">>
TaskB == <<"B">>
TextA == <<"a">>
TextPadded == <<" ", "a">>
TextBlank == <<" ">>

Reply(text) == [raises |-> FALSE, text |-> text]
Raises == [raises |-> TRUE, text |-> <<>>]

L_TASK1 == <<"EOP", "MU", "BEON", "HO", ":", " ", "1">>

\* a worksheet written before the alarm and done columns existed
LegacyNotes ==
    Frame({"date", "time", "menu", "type", "content", "image"},
          <<[c \in {"date", "time", "menu", "type", "content", "image"} |->
                CASE c = "date" -> TODAY [] c = "time" -> CLOCK
                  [] c = "menu" -> TaskA [] c = "type" -> T_TODO
                  [] c = "content" -> <<"o", "l", "d">> [] OTHER -> <<>>]>>)

InitNotes == {NoFrame, LegacyNotes}
InitConfigs == {Frame(CONFIG_COLS, <<>>), Frame(CONFIG_COLS, <<ConfigRow(TaskA, <<>>)>>)}

NoChecks == [idea |-> FALSE, todo |-> FALSE, update |-> TRUE, issue |-> FALSE]

\* the submits of Spec: plain notes, by hand or classified
SubmitInputs ==
    [mode : {"manual"}, content : {TextA, TextPadded, TextBlank},
     menu_idx : {1}, checks : {NoChecks}, alarm : {None}, images : {<<>>},
     reply : {Raises}, okConfig : {TRUE}, okNotes : BOOLEAN,
     upload : {"ok"}, insertOk : {TRUE}]
    \cup
    [mode : {"ai"}, content : {TextA},
     menu_idx : {1}, checks : {NoChecks}, alarm : {None}, images : {<<>>},
     reply : {Reply(L_TASK1), Raises}, okConfig : {TRUE}, okNotes : BOOLEAN,
     upload : {"ok"}, insertOk : {TRUE}]

gr_SubmitInputs ==
    [mode : {"manual"}, content : {TextA, TextPadded, TextBlank},
     menu : {TaskA}, note_type : {G_UPDATE}, alarm : {None}, hasImage : {FALSE},
     reply : {Raises}, okConfig : {"ok", "noconn", "error"},
     okNotes : {"ok", "noconn", "error"}, upload : {"ok"}]
    \cup
    [mode : {"ai"}, content : {TextA},
     menu : {TaskA}, note_type : {G_UPDATE}, alarm : {None}, hasImage : {FALSE},
     reply : {Reply(L_TASK1), Raises}, okConfig : {"ok", "noconn", "error"},
     okNotes : {"ok", "noconn", "error"}, upload : {"ok"}]

NoCall == [pc |-> "idle"]
NoEvent == Event("init", "none", TRUE)

\* the start: the spreadsheet holds notes, config and chats; nothing is
\* memoized and every session is idle
InitWith(apps, notes, configs) ==
    /\ app \in apps
    /\ hasKey \in BOOLEAN
    /\ \E n \in notes, c \in configs :
          sheet = [w \in Worksheets |->
                      CASE w = "notes" -> n [] w = "config" -> c
                        [] OTHER -> Frame(CHATS_COLS, <<>>)]
    /\ ver = [w \in Worksheets |-> 0]
    /\ loadCache = NoCache
    /\ readCache = NoCache
    /\ sess = [s \in Sessions |-> Idle]
    /\ drive = <<>>
    /\ calendar = <<>>
    /\ now = 0
    /\ cl = NoCall
    /\ last = NoEvent

Init == InitWith({"streamlit", "gradio"}, InitNotes, InitConfigs)

\* Spec: the record form and the history view of both versions.  The config
\* worksheet is not written here and its reads succeed (SpecSettings has the
\* settings page), so only the memo entries of notes are given a lifetime.
Next ==
    \/ \E ok \in BOOLEAN : Render("notes", ok)
    \/ LoadTtlExpire("notes")
    \/ ReadTtlExpire("notes")
    \/ \E s \in Sessions, in \in SubmitInputs : Submit(s, in)
    \/ \E s \in Sessions, idx \in 1..MaxRows, okN \in BOOLEAN :
          HistoryComplete(s, idx, okN, TRUE)
    \/ \E s \in Sessions, idx \in 1..MaxRows, okN \in BOOLEAN :
          HistoryDelete(s, idx, okN, TRUE)
    \/ \E s \in Sessions, ok \in BOOLEAN : Save(s, ok)
    \/ \E s \in Sessions, in \in gr_SubmitInputs : gr_save_note(s, in)
    \/ \E s \in Sessions, o \in {"ok", "fail", "fail_after_clear"} : gr_Save(s, o)

Spec == Init /\ [][Next]_vars

\* SpecSettings: the settings page of the Streamlit version
MenuNames == {TaskA, <<" ", "B">>, TextBlank}

InitSettings == InitWith({"streamlit"}, {LegacyNotes}, InitConfigs)

NextSettings ==
    \/ \E ok \in BOOLEAN : Render("config", ok)
    \/ LoadTtlExpire("config")
    \/ ReadTtlExpire("config")
    \/ \E s \in Sessions, idx \in 1..MaxRows, ok \in BOOLEAN : MenuDelete(s, idx, ok)
    \/ \E s \in Sessions, name \in MenuNames, ok \in BOOLEAN : AddMenu(s, name, <<>>, ok)
    \/ \E s \in Sessions, name \in MenuNames, ok \in BOOLEAN : FirstMenu(s, name, <<>>, ok)
    \/ \E s \in Sessions, ok \in BOOLEAN : Save(s, ok)

SpecSettings == InitSettings /\ [][NextSettings]_vars

\* SpecChats: the conversation page of the Streamlit version
InitChats == InitWith({"streamlit"}, {LegacyNotes}, InitConfigs)

NextChats ==
    \/ \E ok \in BOOLEAN : Render("chats", ok)
    \/ LoadTtlExpire("chats")
    \/ ReadTtlExpire("chats")
    \/ \E s \in Sessions, topic \in {TaskA, TaskB}, ok \in BOOLEAN :
          ChatSubmit(s, topic, TextPadded, ok)
    \/ \E s \in Sessions, idx \in 1..MaxRows, ok \in BOOLEAN : ChatDelete(s, idx, ok)
    \/ \E s \in Sessions, ok \in BOOLEAN : Save(s, ok)

SpecChats == InitChats /\ [][NextChats]_vars

(***************************************************************************)
(* Specification SpecClassify: one call of ai_classify_note, in either     *)
(* version, on an answer of at most MaxLines lines.                        *)
(***************************************************************************)
\* "업무번호: " and "유형: " and "시간: ", the heads of the lines the prompt asks for
H_TASK == <<"EOP", "MU", "BEON", "HO", ":", " ">>
H_TYPE == <<"YU", "HYEONG", ":", " ">>
H_TIME == <<"SI", "GAN", ":", " ">>

L_TASK2 == H_TASK \o <<"2">>
L_TASK0 == H_TASK \o <<"0">>
L_TASK9 == H_TASK \o <<"9">>
L_TASKX == H_TASK \o <<"?">>
L_TYPE_TODO == H_TYPE \o T_TODO
L_TYPE_IDEA_EN == H_TYPE \o <<"I", "D", "E", "A">>
L_TYPE_X == H_TYPE \o <<"?">>
\* "업무 유형: 할일": both keywords in one line
L_TASK_TYPE == <<"EOP", "MU", " ">> \o H_TYPE \o T_TODO
ALARM_TEXT == <<"2", "0", "2", "6", "-", "0", "1", "-", "0", "1", " ",
                "0", "1", ":", "0", "0">>
L_TIME == H_TIME \o ALARM_TEXT
L_TIME_NONE == H_TIME \o K_NONE
L_OTHER == <<"o", "k">>
\* "RRULE:FREQ=DAILY", a recurrence rule in the form calendars take
RRULE_TOKEN == <<"R", "R", "U", "L", "E", ":">>
L_RRULE == RRULE_TOKEN \o <<"F", "R", "E", "Q", "=", "D", "A", "I", "L", "Y">>

AnswerLines ==
    {L_TASK1, L_TASK2, L_TASK0, L_TASK9, L_TASKX, L_TYPE_TODO, L_TYPE_IDEA_EN,
     L_TYPE_X, L_TASK_TYPE, L_TIME, L_TIME_NONE, L_OTHER, L_RRULE}

\* "\n".join(lines)
RECURSIVE JoinLines(_)
JoinLines(lines) ==
    IF Len(lines) = 0 THEN <<>>
    ELSE IF Len(lines) = 1 THEN lines[1]
    ELSE lines[1] \o <<"\n">> \o JoinLines(Tail(lines))

Answers ==
    {JoinLines(ls) : ls \in UNION {[1..n -> AnswerLines] : n \in 0..MaxLines}}

MenuLists == {<<>>, <<TaskA>>, <<TaskA, TaskB>>}

InitClassify ==
    /\ app \in {"streamlit", "gradio"}
    /\ hasKey \in BOOLEAN
    /\ sheet = [w \in Worksheets |-> NoFrame]
    /\ ver = [w \in Worksheets |-> 0]
    /\ loadCache = NoCache
    /\ readCache = NoCache
    /\ sess = [s \in Sessions |-> Idle]
    /\ drive = <<>>
    /\ calendar = <<>>
    /\ now = 0
    /\ \E ml \in MenuLists, r \in {Reply(a) : a \in Answers} \cup {Raises} :
          cl = [pc |-> "call", menu_list |-> ml, reply |-> r]
    /\ last = NoEvent

\* the call returns
Classify ==
    /\ app = "streamlit"
    /\ cl.pc = "call"
    /\ cl' = [pc |-> "done", menu_list |-> cl.menu_list, reply |-> cl.reply,
              out |-> ai_classify_note(hasKey, cl.reply, cl.menu_list)]
    /\ UNCHANGED <<app, hasKey, sheet, ver, loadCache, readCache, sess, drive,
                   calendar, now, last>>

gr_Classify ==
    /\ app = "gradio"
    /\ cl.pc = "call"
    /\ cl' = [pc |-> "done", menu_list |-> cl.menu_list, reply |-> cl.reply,
              out |-> gr_ai_classify_note(hasKey, cl.reply, cl.menu_list)]
    /\ UNCHANGED <<app, hasKey, sheet, ver, loadCache, readCache, sess, drive,
                   calendar, now, last>>

NextClassify == Classify \/ gr_Classify

SpecClassify == InitClassify /\ [][NextClassify]_vars

(***************************************************************************)
(* Specification SpecPending: the clock runs and the page asks             *)
(* check_pending_tasks() for the alerts to show.                           *)
(***************************************************************************)
\* "2026-01-01 02:00" and "2026-02-30 01:00" (no such day)
ALARM_LATER == <<"2", "0", "2", "6", "-", "0", "1", "-", "0", "1", " ",
                 "0", "2", ":", "0", "0">>
ALARM_NO_DAY == <<"2", "0", "2", "6", "-", "0", "2", "-", "3", "0", " ",
                  "0", "1", ":", "0", "0">>

StoredRow(note_type, alarm, done) ==
    [NoteRow(TaskA, note_type, TextA, None, alarm) EXCEPT !["done"] = done]

PendingTables ==
    {Frame(NOTES_COLS, <<StoredRow(T_TODO, ALARM_TEXT, <<>>)>>),
     Frame(NOTES_COLS, <<StoredRow(T_TODO, ALARM_TEXT, <<"O">>),
                         StoredRow(T_TODO, ALARM_LATER, <<>>)>>),
     Frame(NOTES_COLS, <<StoredRow(T_UPDATE, ALARM_TEXT, <<>>),
                         StoredRow(T_TODO, ALARM_NO_DAY, <<>>)>>),
     Frame(NOTES_COLS, <<StoredRow(T_TODO, <<>>, <<>>),
                         StoredRow(T_TODO, <<" ">> \o ALARM_TEXT, <<>>)>>)}

InitPending ==
    /\ InitWith({"streamlit"}, PendingTables,
                {Frame(CONFIG_COLS, <<ConfigRow(TaskA, <<>>)>>)})
    /\ hasKey

\* the clock moves on
Tick ==
    /\ now < MaxTicks
    /\ now' = now + 1
    /\ last' = Event("tick", "none", TRUE)
    /\ UNCHANGED <<app, hasKey, sheet, ver, loadCache, readCache, sess, drive,
                   calendar, cl>>

\* check_pending_tasks() at the time now; r is its load of notes
Checked(r) ==
    /\ loadCache' = r.lc
    /\ readCache' = r.rc
    /\ last' = [act |-> "check", ok |-> ~r.failed, t |-> now, df |-> r.df,
                pending |-> check_pending_tasks(r.df, now)]
Check(readOk) ==
    /\ app = "streamlit"
    /\ Checked(load_sheet(loadCache, readCache, "notes", readOk))
    /\ UNCHANGED <<app, hasKey, sheet, ver, sess, drive, calendar, now, cl>>

NextPending ==
    \/ Tick
    \/ \E ok \in BOOLEAN : Check(ok)
    \/ LoadTtlExpire("notes")
    \/ ReadTtlExpire("notes")

SpecPending == InitPending /\ [][NextPending]_vars

(***************************************************************************)
(* Specification SpecForm: the record form of either version, filled in    *)
(* once (cl.in: what was entered and how the outside world answers) and    *)
(* submitted, once or again, by one session.                               *)
(***************************************************************************)
\* the four type checkboxes of the manual form, each ticked or not
CheckBoxes == [idea : BOOLEAN, todo : BOOLEAN, update : BOOLEAN, issue : BOOLEAN]

\* "시간: 2026-02-30 01:00": the pattern of the time line matches it
L_TIME_NO_DAY == H_TIME \o ALARM_NO_DAY

FormReplies ==
    {Reply(a) : a \in Answers}
       \cup {Raises, Reply(JoinLines(<<L_TYPE_TODO, L_TIME_NO_DAY>>))}

\* the answers with which a classified submit is followed through its
\* upload and its calendar event
EffectReplies ==
    {Raises, Reply(JoinLines(<<L_TYPE_TODO, L_TIME>>)),
     Reply(JoinLines(<<L_TYPE_TODO, L_TIME_NO_DAY>>))}

\* a content box left empty, or filled with a blank
BlankContents == {<<>>, TextBlank}

\* the date and time inputs give no alarm or a date that exists
FormInputs ==
    {in \in
        [mode : {"manual"}, content : {TextA}, menu_idx : {1, 2},
         checks : CheckBoxes, alarm : {None, ALARM_TEXT},
         images : {<<>>, <<<<"p">>>>}, reply : {Raises}, okConfig : {TRUE},
         okNotes : {TRUE}, upload : {"ok", "create_fails", "perm_fails"},
         insertOk : BOOLEAN]
        \cup
        [mode : {"ai"}, content : {TextA}, menu_idx : {1},
         checks : {NoChecks}, alarm : {None},
         images : {<<>>, <<<<"p">>>>}, reply : FormReplies, okConfig : {TRUE},
         okNotes : {TRUE}, upload : {"ok", "create_fails", "perm_fails"},
         insertOk : BOOLEAN]
        \cup
        [mode : {"manual", "ai"}, content : BlankContents, menu_idx : {1},
         checks : {[idea |-> FALSE, todo |-> TRUE, update |-> FALSE,
                    issue |-> FALSE]},
         alarm : {ALARM_TEXT}, images : {<<<<"p">>>>},
         reply : {Reply(JoinLines(<<L_TYPE_TODO, L_TIME>>))},
         okConfig : {TRUE}, okNotes : {TRUE}, upload : {"ok"},
         insertOk : {TRUE}] :
     /\ in.images = <<>> => in.upload = "ok"
     /\ (in.mode = "manual" /\ in.alarm = None) => in.insertOk
     /\ (in.mode = "ai" /\ in.reply \notin EffectReplies)
           => (in.images = <<>> /\ in.insertOk)}

\* "x y": what the two text boxes of the Gradio version take as date and time
ALARM_TYPED == <<"x", " ", "y">>

\* the radio of the Gradio version holds one of its four choices; its date
\* and time are texts, joined by a blank
gr_FormInputs ==
    {in \in
        [mode : {"manual"}, content : {TextA}, menu : {TaskA, TaskB},
         note_type : {G_IDEA, G_TODO, G_UPDATE, G_ISSUE},
         alarm : {None, ALARM_TEXT, ALARM_TYPED}, hasImage : BOOLEAN,
         reply : {Raises},
         okConfig : {"ok"}, okNotes : {"ok"},
         upload : {"ok", "create_fails", "perm_fails"}]
        \cup
        [mode : {"ai"}, content : {TextA}, menu : {TaskA},
         note_type : {G_UPDATE}, alarm : {None}, hasImage : BOOLEAN,
         reply : FormReplies, okConfig : {"ok"}, okNotes : {"ok"},
         upload : {"ok", "create_fails", "perm_fails"}]
        \cup
        [mode : {"manual", "ai"}, content : BlankContents, menu : {TaskA},
         note_type : {G_TODO}, alarm : {ALARM_TEXT}, hasImage : {TRUE},
         reply : {Reply(JoinLines(<<L_TYPE_TODO, L_TIME>>))},
         okConfig : {"ok"}, okNotes : {"ok"}, upload : {"ok"}] :
     /\ ~in.hasImage => in.upload = "ok"
     /\ (in.mode = "ai" /\ in.reply \notin EffectReplies) => ~in.hasImage}

InitForm ==
    /\ app \in {"streamlit", "gradio"}
    /\ hasKey \in BOOLEAN
    /\ sheet = [w \in Worksheets |->
                   CASE w = "notes" -> NoFrame
                     [] w = "config" ->
                          Frame(CONFIG_COLS, <<ConfigRow(TaskA, <<>>),
                                               ConfigRow(TaskB, <<>>)>>)
                     [] OTHER -> Frame(CHATS_COLS, <<>>)]
    /\ ver = [w \in Worksheets |-> 0]
    /\ loadCache = NoCache
    /\ readCache = NoCache
    /\ sess = [s \in Sessions |-> Idle]
    /\ drive = <<>>
    /\ calendar = <<>>
    /\ now = 0
    /\ \E in \in IF app = "streamlit" THEN FormInputs ELSE gr_FormInputs :
          cl = [pc |-> "form", in |-> in]
    /\ last = NoEvent

\* the form is that of session 1; the other sessions stay idle (Spec has the
\* sessions that interleave)
NextForm ==
    \/ Submit(1, cl.in)
    \/ \E ok \in BOOLEAN : Save(1, ok)
    \/ gr_save_note(1, cl.in)
    \/ \E outcome \in {"ok", "fail", "fail_after_clear"} : gr_Save(1, outcome)

SpecForm == InitForm /\ [][NextForm]_vars

(***************************************************************************)
(* Specification SpecButtons: the buttons of the Streamlit version that    *)
(* name a row by its index.  A session is shown the notes (pc "shown", df  *)
(* the table it was shown); a click of a button it was shown reruns the    *)
(* script, which loads the notes again and runs the handler of the button  *)
(* with that key if this run draws one.  The note the user chose is kept   *)
(* in row (a ghost).                                                       *)
(***************************************************************************)
\* "2026-01-01 00:10": at the start the clock is inside its alert window
ALARM_SOON == <<"2", "0", "2", "6", "-", "0", "1", "-", "0", "1", " ",
                "0", "0", ":", "1", "0">>

TodoRow(content) == NoteRow(TaskA, T_TODO, content, None, ALARM_SOON)

ButtonTables == {Frame(NOTES_COLS, <<TodoRow(<<"x">>), TodoRow(<<"y">>)>>)}

InitButtons ==
    /\ InitWith({"streamlit"}, ButtonTables,
                {Frame(CONFIG_COLS, <<ConfigRow(TaskA, <<>>)>>)})
    /\ hasKey

\* a run that draws the alert panel and the history view for session s
Show(s, readOk) ==
    /\ app = "streamlit"
    /\ sess[s].pc \in {"idle", "shown"}
    /\ LET n == load_sheet(loadCache, readCache, "notes", readOk)
           c == HistoryConfig(n, TRUE)
       IN  /\ loadCache' = c.lc
           /\ readCache' = c.rc
           /\ sess' = [sess EXCEPT ![s] =
                          [pc |-> "shown", op |-> "view", ws |-> "notes",
                           base |-> Loaded(n), df |-> n.df, idx |-> 0,
                           row |-> <<>>]]
           /\ last' = Event("load", "notes", ~n.failed)
    /\ UNCHANGED <<app, hasKey, sheet, ver, drive, calendar, now, cl>>

\* the rerun after a click: handle (the run draws the button with the key of
\* row idx) leads to the save of df; otherwise the click is lost
Clicked(s, op, idx, n, c, handle, df) ==
    IF handle
    THEN LoadThenSave(s, op, "notes", [n EXCEPT !.lc = c.lc, !.rc = c.rc],
                      df, idx, sess[s].df.rows[idx])
    ELSE /\ loadCache' = c.lc
         /\ readCache' = c.rc
         /\ sess' = [sess EXCEPT ![s] = Idle]
         /\ last' = Event("run", "none", TRUE)
         /\ UNCHANGED <<app, hasKey, sheet, ver, drive, calendar, now, cl>>

\* the button done_{idx} of the alert panel
PanelComplete(s, idx, readOk) ==
    /\ app = "streamlit"
    /\ sess[s].pc = "shown"
    /\ \E k \in 1..Len(check_pending_tasks(sess[s].df, now)) :
          check_pending_tasks(sess[s].df, now)[k].idx = idx
    /\ LET n == load_sheet(loadCache, readCache, "notes", readOk)
       IN  Clicked(s, "complete", idx, n, n,
                   \E k \in 1..Len(check_pending_tasks(n.df, now)) :
                      check_pending_tasks(n.df, now)[k].idx = idx,
                   SetCell(n.df, idx, "done", <<"O">>))

\* the button complete_{idx} of the history view
ClickComplete(s, idx, readOk) ==
    /\ app = "streamlit"
    /\ sess[s].pc = "shown"
    /\ idx \in 1..Len(sess[s].df.rows)
    /\ sess[s].df.rows[idx]["type"] = T_TODO
    /\ ~IsDone(sess[s].df.rows[idx]["done"])
    /\ LET n == load_sheet(loadCache, readCache, "notes", readOk)
           c == HistoryConfig(n, TRUE)
       IN  Clicked(s, "complete", idx, n, c,
                   /\ HistoryShown(n, c)
                   /\ idx \in 1..Len(n.df.rows)
                   /\ n.df.rows[idx]["type"] = T_TODO
                   /\ ~IsDone(n.df.rows[idx]["done"]),
                   SetCell(n.df, idx, "done", <<"O">>))

\* the button del_{idx} of the history view
ClickDelete(s, idx, readOk) ==
    /\ app = "streamlit"
    /\ sess[s].pc = "shown"
    /\ idx \in 1..Len(sess[s].df.rows)
    /\ LET n == load_sheet(loadCache, readCache, "notes", readOk)
           c == HistoryConfig(n, TRUE)
       IN  Clicked(s, "delete", idx, n, c,
                   HistoryShown(n, c) /\ idx \in 1..Len(n.df.rows),
                   Drop(n.df, idx))

NextButtons ==
    \/ \E ok \in BOOLEAN : Check(ok)
    \/ \E s \in Sessions, ok \in BOOLEAN : Show(s, ok)
    \/ \E s \in Sessions, idx \in 1..MaxRows, ok \in BOOLEAN : PanelComplete(s, idx, ok)
    \/ \E s \in Sessions, idx \in 1..MaxRows, ok \in BOOLEAN : ClickComplete(s, idx, ok)
    \/ \E s \in Sessions, idx \in 1..MaxRows, ok \in BOOLEAN : ClickDelete(s, idx, ok)
    \/ \E s \in Sessions, ok \in BOOLEAN : Save(s, ok)
    \/ LoadTtlExpire("notes")
    \/ ReadTtlExpire("notes")

SpecButtons == InitButtons /\ [][NextButtons]_vars

(***************************************************************************)
(* Specification SpecImages: st.session_state.uploaded_images of one       *)
(* session of the Streamlit version.  cl.uploaded_images is the list (of   *)
(* file names) and cl.sel the files the uploader held at the last press of *)
(* the save button (a ghost).  The form is made with clear_on_submit, so   *)
(* the uploader holds files only in the run that handles a press of one of *)
(* the form's buttons.                                                     *)
(***************************************************************************)
IMG_P == <<"p">>
IMG_Q == <<"q">>

\* what the uploader may hold when a button of the form is pressed
Selections == {<<>>, <<IMG_P>>, <<IMG_Q>>, <<IMG_P, IMG_Q>>, <<IMG_Q, IMG_P>>}

\* the loop over uploaded_files: a file is appended unless its name is listed
RECURSIVE AddUploaded(_, _)
AddUploaded(uploaded_images, uploaded_files) ==
    IF uploaded_files = <<>> THEN uploaded_images
    ELSE AddUploaded(
             IF Head(uploaded_files) \in Range(uploaded_images)
             THEN uploaded_images
             ELSE Append(uploaded_images, Head(uploaded_files)),
             Tail(uploaded_files))

\* list.pop(idx), idx counted from 1
Pop(list, idx) == SubSeq(list, 1, idx - 1) \o SubSeq(list, idx + 1, Len(list))

ImageInputs ==
    [mode : {"manual", "ai"}, content : {TextA, TextBlank}, menu_idx : {1},
     checks : {NoChecks}, alarm : {None}, images : {<<>>},
     reply : {Reply(L_TASK1)}, okConfig : {TRUE}, okNotes : {TRUE},
     upload : {"ok", "create_fails"}, insertOk : {TRUE}]

InitImages ==
    /\ app = "streamlit"
    /\ hasKey \in BOOLEAN
    /\ sheet = [w \in Worksheets |->
                   CASE w = "notes" -> NoFrame
                     [] w = "config" -> Frame(CONFIG_COLS, <<ConfigRow(TaskA, <<>>)>>)
                     [] OTHER -> Frame(CHATS_COLS, <<>>)]
    /\ ver = [w \in Worksheets |-> 0]
    /\ loadCache = NoCache
    /\ readCache = NoCache
    /\ sess = [s \in Sessions |-> Idle]
    /\ drive = <<>>
    /\ calendar = <<>>
    /\ now = 0
    /\ cl = [pc |-> "images", uploaded_images |-> <<>>, sel |-> <<>>]
    /\ last = NoEvent

\* the run that handles the save button: the files of the uploader join the
\* list, then the submit works with the list
ImageSubmit(s, in, uploaded_files) ==
    /\ app = "streamlit"
    /\ cl.pc = "images"
    /\ sess[s].pc = "idle"
    /\ cl' = [cl EXCEPT !.uploaded_images = AddUploaded(@, uploaded_files),
                        !.sel = uploaded_files]
    /\ SubmitRun(s, [in EXCEPT !.images = AddUploaded(cl.uploaded_images, uploaded_files)],
                 SubmitPlan([in EXCEPT !.images = AddUploaded(cl.uploaded_images, uploaded_files)]))
    /\ UNCHANGED <<app, hasKey, sheet, ver, now>>

\* the save of the submit: after a save that went through the list is reset
ImageSave(s, updateOk) ==
    /\ app = "streamlit"
    /\ cl.pc = "images"
    /\ sess[s].pc = "save"
    /\ updateOk => TotalWrites < MaxWrites
    /\ save_sheet(sess[s].df, sess[s].ws, updateOk)
    /\ sess' = [sess EXCEPT ![s] = Idle]
    /\ last' = SaveEvent(s, updateOk)
    /\ cl' = IF updateOk THEN [cl EXCEPT !.uploaded_images = <<>>] ELSE cl
    /\ UNCHANGED <<app, hasKey, drive, calendar, now>>

\* the button del_img_form_{idx}, itself a submit button of the form
ImageDelete(s, idx, uploaded_files) ==
    /\ app = "streamlit"
    /\ cl.pc = "images"
    /\ sess[s].pc = "idle"
    /\ idx \in 1..Len(cl.uploaded_images)
    /\ cl' = [cl EXCEPT !.uploaded_images =
                            Pop(AddUploaded(@, uploaded_files), idx)]
    /\ last' = Event("run", "del_img", TRUE)
    /\ UNCHANGED <<app, hasKey, sheet, ver, loadCache, readCache, sess, drive,
                   calendar, now>>

NextImages ==
    \/ \E in \in ImageInputs, files \in Selections : ImageSubmit(1, in, files)
    \/ \E ok \in BOOLEAN : ImageSave(1, ok)
    \/ \E idx \in 1..2, files \in Selections : ImageDelete(1, idx, files)

SpecImages == InitImages /\ [][NextImages]_vars

(***************************************************************************)
(* Properties.                                                             *)
(***************************************************************************)
\* the step is the save of session s and the write went through
Saved(s) ==
    /\ sess[s].pc = "save"
    /\ sess'[s].pc = "idle"
    /\ last'.act = "save"
    /\ last'.ok

\* session s saves a table it loaded after the last write of the worksheet
SavedFresh(s) == Saved(s) /\ sess[s].base.ver = ver[sess[s].ws]

\* the step is a load of worksheet w that read the spreadsheet as it is now
LoadedFresh(w) ==
    /\ last'.act = "load"
    /\ last'.op = w
    /\ last'.ok
    /\ loadCache'[w].ver = ver'[w]

\* C1: once the save of a submitted note has succeeded, the load of notes that
\* follows returns a row whose content is the submitted content, character
\* for character, also when the content begins or ends with whitespace.
C1_RoundTrip ==
    [][(/\ last.act = "save" /\ last.ok /\ last.op = "submit"
        /\ LoadedFresh("notes"))
       => \E i \in 1..Len(loadCache'["notes"].df.rows) :
             loadCache'["notes"].df.rows[i]["content"] = last.row["content"]]_vars

\* row i of table after is row j of table before, in the columns before has
SameRow(after, i, before, j) ==
    \A c \in before.cols : c \in after.cols /\ after.rows[i][c] = before.rows[j][c]

\* C2: a delete by index that is saved removes exactly the row of that index
\* from the stored sheet: one row fewer, every other row present, unchanged
\* and in the same order.
C2_DeleteExact ==
    [][\A s \in Sessions :
          (SavedFresh(s) /\ sess[s].op = "delete")
          => LET w == sess[s].ws
                 idx == sess[s].idx
             IN  /\ Len(sheet'[w].rows) = Len(sheet[w].rows) - 1
                 /\ \A i \in 1..Len(sheet'[w].rows) :
                       SameRow(sheet'[w], i, sheet[w], IF i < idx THEN i ELSE i + 1)]_vars

\* the answer has a line with 업무 and ':' whose number names a task of the list
ParsableTaskLine(raw_line, menu_list) ==
    LET line == strip(raw_line)
        num_str == strip(SplitSecond(line, ":"))
    IN  /\ Contains(line, K_TASK)
        /\ ":" \in Range(line)
        /\ HasNumber(num_str)
        /\ ToInt(FirstNumber(num_str)) \in 1..Len(menu_list)

NoParsableTaskLine(text, menu_list) ==
    \A i \in 1..Len(SplitLines(strip(text))) :
        ~ParsableTaskLine(SplitLines(strip(text))[i], menu_list)

\* no line of the answer sets the category
NoTypeLine(version, text, menu_list) ==
    \A i \in 1..Len(SplitLines(strip(text))) :
        ParseLine(version, SplitLines(strip(text))[i], menu_list,
                  Classified(None, None, None)).type = None

\* the update category each version falls back to
DefaultType(version) == IF version = "gradio" THEN G_UPDATE ELSE T_UPDATE

\* the model answered, and no line of the answer selects a task
AnsweredNoTask ==
    /\ cl.pc = "done"
    /\ hasKey
    /\ ~cl.reply.raises
    /\ Len(cl.menu_list) > 0
    /\ NoParsableTaskLine(cl.reply.text, cl.menu_list)

\* C3 as stated: an answer without a parsable task-number line is classified
\* as the first configured task and the update category.
C3_FallbackBoth ==
    AnsweredNoTask
    => /\ cl.out.res.menu = cl.menu_list[1]
       /\ cl.out.res.type = DefaultType(app)

\* C3, amended: an answer without a parsable task-number line is classified as
\* the first configured task; its category is the one a type line of the
\* answer names, and the update category only when no line names one.
C3_Fallback ==
    AnsweredNoTask
    => /\ cl.out.res.menu = cl.menu_list[1]
       /\ NoTypeLine(app, cl.reply.text, cl.menu_list)
             => cl.out.res.type = DefaultType(app)
       /\ cl.out.res.type \in {T_IDEA, T_TODO, T_UPDATE, T_ISSUE,
                               G_IDEA, G_TODO, G_UPDATE, G_ISSUE}

\* an answer whose task number names no task and whose type line says to-do
C3_Witness ==
    /\ AnsweredNoTask
    /\ app = "streamlit"
    /\ cl.menu_list = <<TaskA, TaskB>>
    /\ cl.reply.text = JoinLines(<<L_TASK9, L_TYPE_TODO>>)
    /\ cl.out.res = Classified(TaskA, T_TODO, None)

\* C9: when the call of the generative model raises, ai_classify_note returns
\* (the exception goes no further) after that one call; with tasks configured
\* it returns the first task, the update category and no reminder, and with
\* none configured it returns no task.
C9_CallRaises ==
    (cl.pc = "done" /\ hasKey /\ cl.reply.raises)
    => /\ cl.out.calls = 1
       /\ IF Len(cl.menu_list) > 0
          THEN cl.out.res = Classified(cl.menu_list[1], DefaultType(app), None)
          ELSE cl.out.res.menu = None

C9_Witness ==
    /\ cl.pc = "done"
    /\ hasKey
    /\ cl.reply.raises
    /\ cl.menu_list = <<TaskA, TaskB>>
    /\ cl.out.res.menu = TaskA
    /\ cl.out.calls = 1

\* row i of the loaded table is an open to-do whose reminder is a date and time
OpenReminder(df, i) ==
    /\ df.rows[i]["type"] = T_TODO
    /\ ~IsDone(df.rows[i]["done"])
    /\ StrptimeOk(strip(df.rows[i]["alarm"]))

\* row i is in the list check_pending_tasks returned
Listed(pending, i) == \E k \in 1..Len(pending) : pending[k].idx = i

\* the time of the reminder of row i, in ticks
AlarmTicks(df, i) == StrptimeMinutes(strip(df.rows[i]["alarm"])) * TicksPerMinute

\* C4: an open to-do with a reminder is in the list check_pending_tasks
\* returns exactly when reminder - 30 min <= now <= reminder + 2 h, both ends
\* included: it is listed 30 minutes ahead of the reminder and is not listed
\* 3 hours after it.
C4_Window ==
    last.act = "check"
    => \A i \in 1..Len(last.df.rows) :
          OpenReminder(last.df, i)
          => /\ Listed(last.pending, i)
                   <=> /\ AlarmTicks(last.df, i) - 30 * TicksPerMinute <= last.t
                       /\ last.t <= AlarmTicks(last.df, i) + 120 * TicksPerMinute
             /\ last.t = AlarmTicks(last.df, i) - 30 * TicksPerMinute
                   => Listed(last.pending, i)
             /\ last.t = AlarmTicks(last.df, i) + 180 * TicksPerMinute
                   => ~Listed(last.pending, i)

\* the check made exactly two hours after the reminder lists the to-do
C4_Witness ==
    /\ last.act = "check"
    /\ Len(last.df.rows) = 1
    /\ OpenReminder(last.df, 1)
    /\ last.t = AlarmTicks(last.df, 1) + 120 * TicksPerMinute
    /\ Listed(last.pending, 1)

\* how many rows of table df have value in column col
CountOf(df, col, value) == Cardinality({i \in 1..Len(df.rows) : df.rows[i][col] = value})

\* C5: once the save of a task added in the settings (add_menu_form or
\* first_menu_form) has succeeded, the task list read back from the config
\* sheet has the new name exactly once.
C5_AddOnce ==
    [][(/\ last.act = "save" /\ last.ok /\ last.op \in {"append", "first"}
        /\ last.ws = "config"
        /\ LoadedFresh("config"))
       => CountOf(loadCache'["config"].df, "name", last.row["name"]) = 1]_vars

\* C6: a load_sheet result that was read before the last successful write of
\* its worksheet is never returned: every table the memo of load_sheet holds
\* was read from the worksheet as it is now.
C6_NoStaleLoad ==
    \A w \in Worksheets :
        (loadCache[w].valid /\ ~loadCache[w].failed) => loadCache[w].ver = ver[w]

\* C7: a save is not checked against the sheet it replaces: whenever a save
\* goes through, the worksheet is the table the saving session built from its
\* own load, whatever was written since that load.
C7_SaveReplacesSheet ==
    [][\A s \in Sessions :
          Saved(s) => sheet'[sess[s].ws] = ToSheet(sess[s].df)]_vars

\* two sessions loaded the same sheet and each saved a note; both saves went
\* through and the row of the earlier one is no longer in the sheet
C7_Witness ==
    /\ last.act = "save" /\ last.ok /\ last.op = "submit"
    /\ last.prev.op = "submit"
    /\ last.prev.s # last.s
    /\ last.prev.basever = last.basever
    /\ \A i \in 1..Len(sheet["notes"].rows) :
          sheet["notes"].rows[i]["content"] # last.prev.row["content"]

\* C8: without an API key a submit in AI mode does not go on to store a row,
\* and with no task in the config sheet no submit does, in either mode.
C8_NoRowStored ==
    (/\ last.act = "submit"
     /\ \/ last.mode = "ai" /\ ~hasKey
        \/ Len(sheet["config"].rows) = 0)
    => ~last.ok

\* C10: a note submit whose save goes through leaves every row the notes
\* sheet had in place and unchanged, and adds one row, the last.
C10_SubmitAppends ==
    [][\A s \in Sessions :
          (SavedFresh(s) /\ sess[s].op = "submit")
          => /\ Len(sheet'["notes"].rows) = Len(sheet["notes"].rows) + 1
             /\ \A i \in 1..Len(sheet["notes"].rows) :
                   /\ i <= Len(sheet'["notes"].rows)
                   /\ SameRow(sheet'["notes"], i, sheet["notes"], i)]_vars

\* the four note types of a version
Categories(version) ==
    IF version = "gradio" THEN {G_IDEA, G_TODO, G_UPDATE, G_ISSUE}
    ELSE {T_IDEA, T_TODO, T_UPDATE, T_ISSUE}

\* the row a submit has just written is the last row of the notes worksheet
SubmitWritten == last.act = "save" /\ last.op = "submit" /\ last.ok

\* C11: the row a submit is about to save, and the row it has written to the
\* notes worksheet, carry one of the four types of the version, whatever the
\* model answered and whichever type checkboxes were ticked.
C11_TypeAmongFour ==
    /\ \A s \in Sessions :
          (sess[s].pc = "save" /\ sess[s].op = "submit")
             => sess[s].row["type"] \in Categories(app)
    /\ SubmitWritten =>
          LET rows == sheet["notes"].rows
          IN  /\ Len(rows) > 0
              /\ rows[Len(rows)]["type"] \in Categories(app)

\* a classified submit whose answer names no known type has been written
C11_Witness ==
    /\ SubmitWritten
    /\ cl.pc = "form"
    /\ cl.in.mode = "ai"
    /\ hasKey
    /\ ~cl.in.reply.raises
    /\ cl.in.reply.text = L_TYPE_X

\* C12: a row of the chats worksheet is never changed: a save made from a
\* table loaded after the last write leaves every stored row as it was, in
\* its place, except the row a delete was asked to remove.
C12_ChatRowsImmutable ==
    [][\A s \in Sessions :
          (SavedFresh(s) /\ sess[s].ws = "chats")
          => LET idx == sess[s].idx
                 kept == IF sess[s].op = "delete"
                         THEN 1..Len(sheet["chats"].rows) \ {idx}
                         ELSE 1..Len(sheet["chats"].rows)
                 place(j) == IF sess[s].op = "delete" /\ j > idx THEN j - 1 ELSE j
             IN  \A j \in kept :
                    /\ place(j) \in 1..Len(sheet'["chats"].rows)
                    /\ SameRow(sheet'["chats"], place(j), sheet["chats"], j)]_vars

\* C13: when the answer of the model holds an RRULE: token, the classifier of
\* the Streamlit version returns, next to task, type and alarm, a recurrence
\* rule that holds the token.
C13_RecurrenceReturned ==
    (/\ app = "streamlit"
     /\ cl.pc = "done"
     /\ hasKey
     /\ ~cl.reply.raises
     /\ Contains(cl.reply.text, RRULE_TOKEN))
    => /\ "rrule" \in DOMAIN cl.out.res
       /\ Contains(cl.out.res["rrule"], RRULE_TOKEN)

\* the step is the run of session s that handles a submit up to its save
Submitted(s) ==
    /\ sess[s].pc = "idle"
    /\ sess'[s].pc = "save"
    /\ sess'[s].op = "submit"

\* C14 as stated: the note row is written before the image is uploaded and
\* the calendar event created, so a run that uploads or creates an event finds
\* its row in the notes worksheet.
C14_RowBeforeEffects ==
    [][\A s \in Sessions :
          (Submitted(s) /\ (drive' # drive \/ calendar' # calendar))
          => \E i \in 1..Len(sheet["notes"].rows) :
                sheet["notes"].rows[i] = sess'[s].row]_vars

\* C14, amended: the classifier is called first, then the image is uploaded
\* and the calendar event created, and the note row is written last.  A step
\* that uploads or creates an event is a submit that got past its classifier
\* call and leaves the worksheets as they are; the save that writes the row
\* touches neither the drive nor the calendar.
C14_RowWrittenLast ==
    [][/\ (drive' # drive \/ calendar' # calendar)
          => /\ sheet' = sheet
             /\ last'.act = "submit"
             /\ last'.ok
             /\ (last'.mode = "ai" /\ hasKey) => last'.calls = 1
             /\ \E s \in Sessions : Submitted(s)
       /\ \A s \in Sessions :
             (Saved(s) /\ sess[s].op = "submit")
             => /\ drive' = drive
                /\ calendar' = calendar
                /\ Len(sheet'["notes"].rows) > 0
                /\ sheet'["notes"].rows[Len(sheet'["notes"].rows)] = sess[s].row]_vars

\* a to-do whose image was uploaded and whose event was created is written
C14_Witness ==
    /\ SubmitWritten
    /\ last.row["image"] # <<>>
    /\ last.row["type"] = T_TODO
    /\ Len(drive) > 0
    /\ Len(calendar) > 0
    /\ cl.pc = "form"
    /\ cl.in.mode = "ai"

\* the lines of the answer whose number names a task of the list
ParsableLines(text, menu_list) ==
    {i \in 1..Len(SplitLines(strip(text))) :
        ParsableTaskLine(SplitLines(strip(text))[i], menu_list)}

\* the number after the colon of line i
TaskNumber(text, i) ==
    ToInt(FirstNumber(strip(SplitSecond(strip(SplitLines(strip(text))[i]), ":"))))

\* C15: when the model answered, the returned task is the k-th task of the
\* list, k being the number of the last task line whose first number lies in
\* 1..Len(menu_list); task lines with another number (0 included) or none
\* select nothing, and without a selecting line the task is the first of the
\* list (none when the list is empty).
C15_TaskNumber ==
    (cl.pc = "done" /\ hasKey /\ ~cl.reply.raises)
    => LET sel == ParsableLines(cl.reply.text, cl.menu_list)
       IN  IF sel # {}
           THEN cl.out.res.menu
                   = cl.menu_list[TaskNumber(cl.reply.text, SetMax(sel))]
           ELSE cl.out.res.menu
                   = IF Len(cl.menu_list) > 0 THEN cl.menu_list[1] ELSE None

\* two task lines name different tasks, the second one the first task
C15_Witness ==
    /\ cl.pc = "done"
    /\ hasKey
    /\ cl.menu_list = <<TaskA, TaskB>>
    /\ cl.reply = Reply(JoinLines(<<L_TASK2, L_TASK1>>))
    /\ cl.out.res.menu = TaskA

\* C16: a completion that is saved, made from a table loaded after the last
\* write, sets the done cell of the selected row to "O" in the stored sheet and
\* changes nothing else: the same number of rows, every other cell of the row
\* and every other row as they were.
C16_CompleteExact ==
    [][\A s \in Sessions :
          (SavedFresh(s) /\ sess[s].op = "complete")
          => LET before == sheet[sess[s].ws]
                 after == sheet'[sess[s].ws]
                 idx == sess[s].idx
             IN  /\ Len(after.rows) = Len(before.rows)
                 /\ idx \in 1..Len(after.rows)
                 /\ after.rows[idx]["done"] = <<"O">>
                 /\ \A i \in 1..Len(before.rows) :
                       IF i = idx
                       THEN \A c \in before.cols \ {"done"} :
                               after.rows[i][c] = before.rows[i][c]
                       ELSE SameRow(after, i, before, i)]_vars

\* C17: every table load_sheet("notes") returns has the alarm and the done
\* column: the table memoized by the Streamlit version and the table a
\* session of either version loaded and is about to save.
C17_NotesColumns ==
    /\ loadCache["notes"].valid
          => {"alarm", "done"} \subseteq loadCache["notes"].df.cols
    /\ \A s \in Sessions :
          (sess[s].pc = "save" /\ sess[s].ws = "notes")
             => {"alarm", "done"} \subseteq sess[s].base.df.cols

\* the id that closes a URL upload_to_drive returned
FileId(url) == DigitVal(url[Len(url)])

\* C18: the URL a submit got from upload_to_drive and stores with its row
\* names a file of the drive on which the public-read permission was created;
\* when the creation of the file or of the permission fails the submit got no
\* URL and stores none.
C18_UrlIsShared ==
    \A s \in Sessions :
       (sess[s].pc = "save" /\ sess[s].op = "submit")
       => /\ sess[s].row["image"] # <<>>
                => /\ FileId(sess[s].row["image"]) \in 1..Len(drive)
                   /\ drive[FileId(sess[s].row["image"])].public
          /\ (cl.pc = "form" /\ cl.in.upload # "ok")
                => sess[s].row["image"] = <<>>

\* a submit stores the URL of the second file of the drive
C18_Witness ==
    /\ Len(drive) = 2
    /\ drive[2].public
    /\ \E s \in Sessions :
          /\ sess[s].pc = "save"
          /\ sess[s].op = "submit"
          /\ sess[s].row["image"] = FileUrl(2)

\* C19: a Streamlit submit of a to-do whose start "2026-01-01 01:00" parses
\* adds, when the insert goes through, one event that starts at that time,
\* ends 60 minutes later, carries the popup offsets 30 and 10 and goes to the
\* calendar wldydxo09@gmail.com; a submit whose start "2026-02-30 01:00" does
\* not parse adds no event and goes on to its save.  Every event of the
\* calendar has that shape.
C19_EventShape ==
    [][/\ \A s \in Sessions :
             (Submitted(s) /\ app = "streamlit"
                 /\ sess'[s].row["type"] = T_TODO /\ cl.pc = "form")
             => /\ (sess'[s].row["alarm"] = ALARM_TEXT /\ cl.in.insertOk)
                      => /\ Len(calendar') = Len(calendar) + 1
                         /\ SubSeq(calendar', 1, Len(calendar)) = calendar
                         /\ calendar'[Len(calendar')].start
                               = StrptimeMinutes(sess'[s].row["alarm"])
                /\ sess'[s].row["alarm"] = ALARM_NO_DAY => calendar' = calendar
       /\ \A i \in 1..Len(calendar') :
             /\ calendar'[i].end = calendar'[i].start + 60
             /\ calendar'[i].reminders = <<30, 10>>
             /\ calendar'[i].calendarId = "wldydxo09@gmail.com"]_vars

\* the event of a classified to-do has been created and its row is written
C19_Witness ==
    /\ SubmitWritten
    /\ last.row["type"] = T_TODO
    /\ last.row["alarm"] = ALARM_TEXT
    /\ Len(calendar) = 1
    /\ calendar[1].end - calendar[1].start = 60

\* C20: a save of the config worksheet, whether it deletes or adds a task,
\* leaves the notes worksheet as it is, so the notes of a deleted task stay.
C20_SettingsLeaveNotes ==
    [][\A s \in Sessions :
          (Saved(s) /\ sess[s].ws = "config")
          => /\ sheet'["notes"] = sheet["notes"]
             /\ ver'["notes"] = ver["notes"]]_vars

\* the task of a stored note has just been deleted from the config worksheet
C20_Witness ==
    /\ last.act = "save"
    /\ last.ok
    /\ last.op = "delete"
    /\ last.ws = "config"
    /\ \E i \in 1..Len(sheet["notes"].rows) :
          /\ sheet["notes"].rows[i]["menu"] = TaskA
          /\ \A j \in 1..Len(sheet["config"].rows) :
                sheet["config"].rows[j]["name"] # TaskA

\* C21: called with a task list that is not empty, ai_classify_note returns a
\* task of that list, whatever the model answered and also when the call
\* raised.
C21_TaskOfList ==
    (/\ cl.pc = "done"
     /\ Len(cl.menu_list) > 0
     /\ hasKey \/ app = "gradio")
    => /\ cl.out.res.menu \in Range(cl.menu_list)
       /\ ~Falsy(cl.out.res.menu)

\* the only task line of the answer names a task the list does not have
C21_Witness ==
    /\ cl.pc = "done"
    /\ hasKey
    /\ app = "streamlit"
    /\ cl.menu_list = <<TaskA, TaskB>>
    /\ cl.reply = Reply(L_TASK9)
    /\ cl.out.res.menu = TaskA

\* the text is, from end to end, one match of \d{4}-\d{2}-\d{2}\s+\d{2}:\d{2}
TimeShaped(a) == \E k \in 1..Len(a) : TimeMatchAt(a, 1, k) /\ Len(a) = 15 + k

\* the row a submit is about to save, with a reminder
StoresAlarm(s) ==
    /\ sess[s].pc = "save"
    /\ sess[s].op = "submit"
    /\ sess[s].row["alarm"] # <<>>

\* C22 as stated: the reminder a submit stores is a date and a time that exist.
C22_AlarmValid ==
    \A s \in Sessions : StoresAlarm(s) => StrptimeOk(sess[s].row["alarm"])

\* C22, amended: the reminder a submit stores has the form YYYY-MM-DD HH:MM
\* digit by digit; it is a date and a time that exist when it came from the
\* date and time inputs of the Streamlit form, while a reminder taken from the
\* answer of the model is held to the pattern only and the two text boxes of
\* the Gradio form are stored as typed.
C22_AlarmShaped ==
    \A s \in Sessions :
       (StoresAlarm(s) /\ cl.pc = "form")
       => /\ (app = "streamlit" \/ cl.in.mode = "ai")
                => TimeShaped(sess[s].row["alarm"])
          /\ (app = "streamlit" /\ cl.in.mode = "manual")
                => StrptimeOk(sess[s].row["alarm"])
          /\ (app = "gradio" /\ cl.in.mode = "manual")
                => sess[s].row["alarm"] = cl.in.alarm

\* a classified to-do is about to be saved with the reminder 2026-02-30 01:00
C22_Witness ==
    /\ cl.pc = "form"
    /\ cl.in.mode = "ai"
    /\ \E s \in Sessions : StoresAlarm(s) /\ sess[s].row["alarm"] = ALARM_NO_DAY

\* C23: no uploaded file and no calendar event is left without its note row:
\* when every run has ended and no write of the notes worksheet has gone
\* through, the drive holds no file and the calendar no event.
C23_NoOrphans ==
    ((\A s \in Sessions : sess[s].pc = "idle") /\ ver["notes"] = 0)
    => (drive = <<>> /\ calendar = <<>>)

\* C24: a save that reports failure leaves the worksheets as they were.
C24_FailedSaveKeepsSheet ==
    [][\A s \in Sessions :
          (/\ sess[s].pc = "save"
           /\ sess'[s].pc = "idle"
           /\ last'.act = "save"
           /\ ~last'.ok)
          => sheet' = sheet]_vars

\* C25: the list check_pending_tasks returns holds only open to-dos: every
\* listed index is a row of the notes worksheet whose type is to-do, whose done
\* cell is no completion mark and whose reminder is a date and a time; a
\* to-do whose completion is stored is in no later list.
C25_OnlyOpenTodos ==
    last.act = "check"
    => \A k \in 1..Len(last.pending) :
          LET i == last.pending[k].idx
              rows == sheet["notes"].rows
          IN  /\ i \in 1..Len(rows)
              /\ rows[i]["type"] = T_TODO
              /\ ~IsDone(rows[i]["done"])
              /\ StrptimeOk(strip(rows[i]["alarm"]))

\* C26: a click on a complete or delete button acts on the note the user
\* chose: the row the handler changes in the table it loaded is the note
\* that was shown with the button, and the table it saves has no more rows
\* than the table it loaded.
C26_HitsChosenRow ==
    \A s \in Sessions :
        (/\ sess[s].pc = "save"
         /\ sess[s].op \in {"delete", "complete"}
         /\ sess[s].row # <<>>)
        => /\ sess[s].idx \in 1..Len(sess[s].base.df.rows)
           /\ sess[s].base.df.rows[sess[s].idx]["content"] = sess[s].row["content"]
           /\ Len(sess[s].df.rows) <= Len(sess[s].base.df.rows)

\* no character of the content is other than a blank or a line break
OnlyWhitespace(content) == \A i \in 1..Len(content) : content[i] \in WS

\* C27: a submit whose content is empty or only whitespace changes nothing:
\* the run writes no row (the worksheets stay as they are and no save
\* follows), calls the classifier zero times, uploads no file and creates no
\* calendar event.
C27_BlankSubmitNoEffect ==
    [][(/\ cl.pc = "form"
        /\ OnlyWhitespace(cl.in.content)
        /\ last'.act = "submit")
       => /\ sheet' = sheet
          /\ drive' = drive
          /\ calendar' = calendar
          /\ last'.calls = 0
          /\ \A s \in Sessions : sess'[s].pc = "idle"]_vars

\* a blank submit by the classifier, with the key and an image, has run
C27_Witness ==
    /\ cl.pc = "form"
    /\ cl.in.content = TextBlank
    /\ cl.in.mode = "ai"
    /\ hasKey
    /\ last.act = "submit"
    /\ last.op = "blank"
    /\ drive = <<>> /\ calendar = <<>> /\ sheet["notes"] = NoFrame

\* the row a submit is about to save is a to-do with a reminder
TodoWithReminder(s) ==
    /\ sess'[s].row["type"] = T_TODO
    /\ sess'[s].row["alarm"] # <<>>

\* C28 as stated: a submit of the Streamlit version creates a calendar event
\* exactly when the note's type is to-do and a reminder time is present.
C28_EventIffTodoReminder ==
    [][\A s \in Sessions :
          (Submitted(s) /\ app = "streamlit")
          => (Len(calendar') = Len(calendar) + 1 <=> TodoWithReminder(s))]_vars

\* C28 as amended: a run of the submit handler adds one calendar event when
\* it is a run of the Streamlit version that gets to its save with a to-do
\* whose reminder is a date and a time that exist, and the insert call
\* succeeds; every other run (another type, no reminder, a reminder that names
\* no day, a failed insert, a stopped run, the Gradio version) leaves the
\* calendar as it is.
C28_EventIffInserted ==
    [][cl.pc = "form"
       => IF \E s \in Sessions :
                /\ Submitted(s)
                /\ app = "streamlit"
                /\ TodoWithReminder(s)
                /\ StrptimeOk(sess'[s].row["alarm"])
                /\ cl.in.insertOk
          THEN /\ Len(calendar') = Len(calendar) + 1
               /\ SubSeq(calendar', 1, Len(calendar)) = calendar
          ELSE calendar' = calendar]_vars

\* a classified note of another type was saved with the reminder the
\* classifier extracted, and no event was created
C28_Witness ==
    /\ app = "streamlit"
    /\ SubmitWritten
    /\ last.row["type"] # T_TODO
    /\ last.row["alarm"] = ALARM_TEXT
    /\ calendar = <<>>

\* the name of the file the row's image cell points to
AttachedName(row, files) == files[FileId(row["image"])].name

\* C29: the list uploaded_images holds at most one entry per file name; the
\* save of a note empties it when it goes through and leaves it as it is
\* when it fails, and a run that handles the save button removes nothing from
\* it; the image attached to a note is the first entry of the list at the
\* submit, and it is a file the user selected with that submit, not one left
\* in the list by an earlier attempt.
C29_PendingImages ==
    [][cl.pc = "images"
       => /\ \A i, j \in 1..Len(cl'.uploaded_images) :
                cl'.uploaded_images[i] = cl'.uploaded_images[j] => i = j
          /\ \A s \in Sessions :
                /\ (sess[s].pc = "save" /\ sess'[s].pc = "idle")
                   => cl'.uploaded_images
                         = IF last'.ok THEN <<>> ELSE cl.uploaded_images
                /\ (sess[s].pc = "idle" /\ last'.act = "submit")
                   => SubSeq(cl'.uploaded_images, 1, Len(cl.uploaded_images))
                         = cl.uploaded_images
                /\ (Submitted(s) /\ sess'[s].row["image"] # <<>>)
                   => /\ AttachedName(sess'[s].row, drive')
                            = cl'.uploaded_images[1]
                      /\ AttachedName(sess'[s].row, drive') \in Range(cl'.sel)]_vars

====
